---- MODULE Spec2Model ----
(***************************************************************************)
(* vite-plugin-brotli-compress: the batch scheduler (compressFiles), the   *)
(* retry wrapper (compressFileWithRetry) and the compression engine        *)
(* (compressFile, compressWithBrotli, compressWithGzip) of src/index.ts,   *)
(* driven by the closeBundle hook.                                         *)
(*                                                                         *)
(* One state of the model is one point between two turns of the Node event *)
(* loop: an action is one turn (a stream event, a timer, the hook call)    *)
(* together with every continuation that runs synchronously after it.      *)
(***************************************************************************)
EXTENDS Integers, Sequences, FiniteSets, TLC

\* ---------------------------------------------------------------- bounds
MaxFiles == 3
MaxParallel == 2
MaxRetry == 1
MaxFaults == 2

FileIds == 1..MaxFiles

\* ------------------------------------------------------------- constants
CompressionType == {"brotli", "gzip", "both"}

\* The three streams of one codec run and the events they can raise.
StreamEvents == {"finish", "writeError", "readError", "compressError"}

\* errorCallback is absent, returns normally, or throws.
CallbackKinds == {"none", "returns", "throws"}

NoError == <<>>
StatError(f, attempt) == <<"stat", f, attempt>>
CallbackError == <<"callback">>
\* A callback may throw any value, a Symbol for one.
SymbolError == <<"symbol">>
Throws(kind) == kind \in {"throws", "throwsSymbol"}
Thrown(kind) == IF kind = "throwsSymbol" THEN SymbolError ELSE CallbackError

\* Paths: the source F and its siblings F.br and F.gz.
SourcePath(f) == <<f, "">>
BrotliPath(f) == <<f, ".br">>
GzipPath(f) == <<f, ".gz">>
ArtifactPath(f, codec) == IF codec = "brotli" THEN BrotliPath(f) ELSE GzipPath(f)

\* stats.size as fs.statSync reports it (a zero-byte file included).
StatSize(f) == f - 1

VARIABLES
  options,    \* CompressionOptions handed to compressFiles
  files,      \* filesToCompress, the candidate list
  fsys,       \* the paths that exist on disk
  written,    \* artifacts whose write stream has finished
  hook,       \* closeBundle: "idle", "running", "resolved", "rejected"
  batch,      \* compressFiles: "notStarted", "running", "returned", "threw"
  idx,        \* index of the chunk (parallel) or file (sequential) in progress
  op,         \* per file: the compressFileWithRetry call
  stats,      \* CompressionStats accumulated by compressFiles
  cbLog,      \* invocations of options.errorCallback, in order
  attempts,   \* per file: number of compressFile calls made
  tried,      \* per file: codecs whose streams the latest attempt opened
  unlinkFailed, \* files whose fs.unlinkSync threw
  crashed,    \* the process died of an unhandled 'error' event
  faults,     \* environment faults injected so far (stat, stream, unlink)
  disk,       \* per file: its directory and extension; the listing order;
              \* the directories that cannot be listed; the link in VendorDir
  prev,       \* earlier builds: their number, what they wrote and left
  viteConfig, \* the configuration configResolved stored, if any
  probe       \* a direct call of a pure helper: its arguments and result

vars == <<options, files, fsys, written, hook, batch, idx, op, stats, cbLog,
          attempts, tried, unlinkFailed, crashed, faults, disk, prev,
          viteConfig, probe>>

\* -------------------------------------------------------- matchesPattern
\* Strings that the code inspects character by character are sequences of
\* one-character strings.
RECURSIVE ReplaceAll(_, _, _)
\* String.prototype.replace(/from/g, to): left to right, non-overlapping.
ReplaceAll(s, from, to) ==
  IF Len(s) < Len(from) THEN s
  ELSE IF SubSeq(s, 1, Len(from)) = from
    THEN to \o ReplaceAll(SubSeq(s, Len(from) + 1, Len(s)), from, to)
    ELSE <<Head(s)>> \o ReplaceAll(Tail(s), from, to)

\* The four chained replace calls that turn a glob into regex source.
regexPattern(pattern) ==
  LET r1 == ReplaceAll(pattern, <<"*", "*">>, <<".", "*">>)
      r2 == ReplaceAll(r1, <<"*">>, <<"[", "^", "/", "]", "*">>)
      r3 == ReplaceAll(r2, <<"?">>, <<".">>)
  IN  ReplaceAll(r3, <<".">>, <<"\\", ".">>)

\* new RegExp(source): a sequence of atoms, each possibly starred. An atom
\* is an escaped character, the class [^/], the wildcard '.', or a literal.
RECURSIVE RegExpParse(_)
RegExpParse(src) ==
  IF src = <<>> THEN <<>>
  ELSE
    LET width == IF Head(src) = "\\" /\ Len(src) >= 2 THEN 2
                 ELSE IF Len(src) >= 4 /\ SubSeq(src, 1, 4) = <<"[", "^", "/", "]">>
                   THEN 4
                 ELSE 1
        atom == IF width = 2 THEN [kind |-> "lit", ch |-> src[2]]
                ELSE IF width = 4 THEN [kind |-> "notSlash", ch |-> "/"]
                ELSE IF Head(src) = "." THEN [kind |-> "any", ch |-> "."]
                ELSE [kind |-> "lit", ch |-> Head(src)]
        starred == Len(src) > width /\ src[width + 1] = "*"
        used == IF starred THEN width + 1 ELSE width
    IN  <<[kind |-> atom.kind, ch |-> atom.ch, star |-> starred]>>
          \o RegExpParse(SubSeq(src, used + 1, Len(src)))

AtomMatches(atom, c) ==
  CASE atom.kind = "lit" -> c = atom.ch
    [] atom.kind = "notSlash" -> c # "/"
    [] atom.kind = "any" -> TRUE

\* regex.test(s) for the anchored expression ^atoms$.
RECURSIVE RegExpTest(_, _)
RegExpTest(atoms, s) ==
  IF atoms = <<>> THEN s = <<>>
  ELSE LET a == Head(atoms) IN
    IF a.star
      THEN \/ RegExpTest(Tail(atoms), s)
           \/ /\ s # <<>>
              /\ AtomMatches(a, Head(s))
              /\ RegExpTest(atoms, Tail(s))
      ELSE /\ s # <<>>
           /\ AtomMatches(a, Head(s))
           /\ RegExpTest(Tail(atoms), Tail(s))

matchesPattern(filePath, patterns) ==
  IF Len(patterns) = 0 THEN TRUE
  ELSE \E i \in 1..Len(patterns) :
         RegExpTest(RegExpParse(regexPattern(patterns[i])), filePath)

\* ---------------------------------------------------- shouldCompressFile
\* maxSize is undefined or a number: a sequence of length 0 or 1.
Undefined == <<>>
Defined(n) == <<n>>
\* `maxSize && ...`: undefined and 0 are both falsy.
Truthy(maxSize) == maxSize # Undefined /\ maxSize[1] # 0

\* The user's shouldCompress(filePath, fileSize), by kind. A predicate may
\* also throw: "throwsOnOne" does for a file of one byte and accepts the
\* others.
PredicateThrows(kind, filePath, fileSize) ==
  kind = "throwsOnOne" /\ fileSize = 1

CustomPredicates == {"none", "acceptAll", "rejectAll", "atLeastTwo"}
CallPredicate(kind, filePath, fileSize) ==
  CASE kind = "acceptAll" -> TRUE
    [] kind = "throwsOnOne" -> TRUE
    [] kind = "rejectAll" -> FALSE
    [] kind = "atLeastTwo" -> fileSize >= 2

\* The return statement shouldCompressFile leaves through.
ShouldCompressBranch(filePath, fileSize, minSize, maxSize, excludePatterns, includePatterns, shouldCompress) ==
  IF fileSize < minSize THEN "tooSmall"
  ELSE IF Truthy(maxSize) /\ fileSize > maxSize[1] THEN "tooLarge"
  ELSE IF Len(includePatterns) > 0 THEN "include"
  ELSE IF Len(excludePatterns) > 0 /\ matchesPattern(filePath, excludePatterns)
    THEN "excluded"
  ELSE IF shouldCompress # "none" THEN "predicate"
  ELSE "default"

shouldCompressFile(filePath, fileSize, minSize, maxSize, excludePatterns, includePatterns, shouldCompress) ==
  LET branch == ShouldCompressBranch(filePath, fileSize, minSize, maxSize,
                  excludePatterns, includePatterns, shouldCompress)
  IN CASE branch \in {"tooSmall", "tooLarge", "excluded"} -> FALSE
       [] branch = "include" -> matchesPattern(filePath, includePatterns)
       [] branch = "predicate" -> CallPredicate(shouldCompress, filePath, fileSize)
       [] branch = "default" -> TRUE

\* shouldCompressFile throws: the predicate is reached and throws.
shouldCompressFileReturns(filePath, fileSize, minSize, maxSize, excludePatterns, includePatterns, shouldCompress) == FALSE

shouldCompressFileThrows(filePath, fileSize, minSize, maxSize, excludePatterns, includePatterns, shouldCompress) ==
  /\ ShouldCompressBranch(filePath, fileSize, minSize, maxSize,
                          excludePatterns, includePatterns, shouldCompress)
       = "predicate"
  /\ PredicateThrows(shouldCompress, filePath, fileSize)

\* ------------------------------------------------------------ findFiles
\* File names are "<id>.<extension>"; the output directory holds one
\* subdirectory, which may hold a symbolic link back to the output
\* directory.
JsExt == <<"j", "s">>
UpperJsExt == <<"J", "S">>
PngExt == <<"p", "n", "g">>
FileExts == {JsExt, UpperJsExt, PngExt}
RootDir == <<"/", "o">>
VendorDir == RootDir \o <<"/", "v">>
Dirs == {RootDir, VendorDir}
LinkName == <<"u">>

\* The longest path the operating system takes (PATH_MAX).
MaxPathLen == 8

\* The directory a path leads to, links in it followed.
Physical(dir) == IF dir[Len(dir)] = "v" THEN VendorDir ELSE RootDir

\* Dirent.isDirectory(): the type of the entry itself, a link is no
\* directory whatever it points to.
IsDirectoryFollowingLinks(kind) == kind \in {"directory", "link"}

IsDirectory(kind) == kind = "directory"

\* readdirSync throws: the directory is missing or unreadable, or its path
\* too long.
ReaddirThrowsNever(dir) == Len(dir) > MaxPathLen

ReaddirThrows(dir) ==
  Physical(dir) \in disk.unlistable \/ Len(dir) > MaxPathLen
Suffix(codec) == IF codec = "brotli" THEN <<".", "b", "r">> ELSE <<".", "g", "z">>

\* path.resolve(dir, entry.name)
Resolve(dir, name) == dir \o <<"/">> \o name
EntryName(f) == <<ToString(f), ".">> \o disk.ext[f]
FullPath(f) == Resolve(disk.dir[f], EntryName(f))

\* String.prototype.endsWith
endsWith(s, suffix) ==
  /\ Len(s) >= Len(suffix)
  /\ SubSeq(s, Len(s) - Len(suffix) + 1, Len(s)) = suffix

HasExtensionAlways(name, extensions) == TRUE

\* extensions.some(ext => entry.name.endsWith(`.${ext}`))
HasExtension(name, extensions) ==
  \E i \in 1..Len(extensions) : endsWith(name, <<".">> \o extensions[i])

compressedFileExistsAll(f, type, fs) ==
  /\ type \in {"brotli", "both"} => BrotliPath(f) \in fs
  /\ type \in {"gzip", "both"} => GzipPath(f) \in fs

compressedFileExists(f, type, fs) ==
  \/ type \in {"brotli", "both"} /\ BrotliPath(f) \in fs
  \/ type \in {"gzip", "both"} /\ GzipPath(f) \in fs

\* The Dirents of the files lying in dir, from the i-th on in the order the
\* operating system lists them: a source and its artifacts, as far as they
\* exist.
RECURSIVE FileEntries(_, _, _)
FileEntries(i, dir, fs) ==
  IF i > MaxFiles THEN <<>>
  ELSE
    LET f == disk.order[i] IN
    (IF disk.dir[f] # dir THEN <<>>
     ELSE
       (IF SourcePath(f) \in fs
          THEN <<[isDirectory |-> FALSE, name |-> EntryName(f),
                  path |-> SourcePath(f)]>>
          ELSE <<>>)
       \o (IF BrotliPath(f) \in fs
             THEN <<[isDirectory |-> FALSE,
                     name |-> EntryName(f) \o Suffix("brotli"),
                     path |-> BrotliPath(f)]>>
             ELSE <<>>)
       \o (IF GzipPath(f) \in fs
             THEN <<[isDirectory |-> FALSE,
                     name |-> EntryName(f) \o Suffix("gzip"),
                     path |-> GzipPath(f)]>>
             ELSE <<>>))
    \o FileEntries(i + 1, dir, fs)

readdirSyncFilesOnly(dir, fs) == FileEntries(1, Physical(dir), fs)

\* fs.readdirSync(dir, { withFileTypes: true })
readdirSync(dir, fs) ==
  FileEntries(1, Physical(dir), fs)
    \o (IF Physical(dir) = RootDir
          THEN <<[isDirectory |-> IsDirectory("directory"), name |-> <<"v">>,
                  path |-> Resolve(dir, <<"v">>)]>>
          ELSE <<>>)
    \o (IF Physical(dir) = VendorDir /\ disk.link
          THEN <<[isDirectory |-> IsDirectory("link"), name |-> LinkName,
                  path |-> Resolve(dir, LinkName)]>>
          ELSE <<>>)

EntryAcceptedNeverSkips(e, dir, o, fs) ==
  /\ HasExtension(e.name, o.extensions)
  /\ e.path[2] = ""
  /\ ~shouldCompressFileThrows(Resolve(dir, e.name), StatSize(e.path[1]),
                               o.minSize, o.maxSize, o.excludePatterns,
                               o.includePatterns, o.shouldCompress)
  /\ shouldCompressFile(Resolve(dir, e.name), StatSize(e.path[1]), o.minSize,
                        o.maxSize, o.excludePatterns, o.includePatterns,
                        o.shouldCompress)

\* The test a file entry passes to be pushed: extension, eligibility, and
\* the skipExisting check; an exception thrown on the way is caught and the
\* loop continues with the next entry. An artifact entry is named by a codec suffix,
\* which no configured extension is.
EntryAccepted(e, dir, o, fs) ==
  /\ HasExtension(e.name, o.extensions)
  /\ e.path[2] = ""
  /\ ~shouldCompressFileThrows(Resolve(dir, e.name), StatSize(e.path[1]),
                               o.minSize, o.maxSize, o.excludePatterns,
                               o.includePatterns, o.shouldCompress)
  /\ shouldCompressFile(Resolve(dir, e.name), StatSize(e.path[1]), o.minSize,
                        o.maxSize, o.excludePatterns, o.includePatterns,
                        o.shouldCompress)
  /\ ~(o.skipExisting /\ compressedFileExists(e.path[1], o.type, fs))

RECURSIVE FindFilesIn(_, _, _, _)
RECURSIVE FindFilesLoop(_, _, _, _, _)
\* The for loop over the entries of one directory; acc holds the files
\* pushed so far, the shared visitedDirs set and the paths readdirSync was
\* called with.
FindFilesLoop(entries, dir, o, fs, acc) ==
  IF entries = <<>> THEN acc
  ELSE
    LET e == Head(entries)
        sub == FindFilesIn(e.path, o, fs, acc.visitedDirs)
        next == IF e.isDirectory
                  THEN [files |-> acc.files \o sub.files,
                        visitedDirs |-> sub.visitedDirs,
                        listed |-> acc.listed \o sub.listed]
                ELSE IF EntryAccepted(e, dir, o, fs)
                  THEN [acc EXCEPT !.files = Append(@, e.path[1])]
                ELSE acc
    IN  FindFilesLoop(Tail(entries), dir, o, fs, next)

FindFilesIn(dir, o, fs, visitedDirs) ==
  IF dir \in visitedDirs
    THEN [files |-> <<>>, visitedDirs |-> visitedDirs, listed |-> <<>>]
  ELSE IF ReaddirThrows(dir)
    THEN [files |-> <<>>, visitedDirs |-> visitedDirs \cup {dir},
          listed |-> <<dir>>]
  ELSE FindFilesLoop(readdirSync(dir, fs), dir, o, fs,
                     [files |-> <<>>, visitedDirs |-> visitedDirs \cup {dir},
                      listed |-> <<dir>>])

findFiles(dir, o, fs) == FindFilesIn(dir, o, fs, {}).files

\* ------------------------------------------------------------ chunkArray
Min(a, b) == IF a < b THEN a ELSE b

\* array.slice(from, to) with zero-based, end-exclusive indices.
Slice(array, from, to) == SubSeq(array, from + 1, Min(to, Len(array)))

RECURSIVE ChunkLoop(_, _, _, _)
ChunkLoop(array, chunkSize, i, chunks) ==
  IF i < Len(array)
    THEN ChunkLoop(array, chunkSize, i + chunkSize,
                   Append(chunks, Slice(array, i, i + chunkSize)))
    ELSE chunks

chunkArrayOversize(array, chunkSize) ==
  ChunkLoop(array, chunkSize + 1, 0, <<>>)

chunkArray(array, chunkSize) == ChunkLoop(array, chunkSize, 0, <<>>)

\* ----------------------------------------------------------- the results
EmptyResults ==
  [compressedFiles |-> 0, failedFiles |-> 0, totalOriginalSize |-> 0,
   totalCompressedSize |-> 0, brotliFiles |-> 0, gzipFiles |-> 0]

EmptyStatsUncounted(n) ==
  [totalFiles |-> 0, compressedFiles |-> 0, skippedFiles |-> 0,
   failedFiles |-> 0, totalOriginalSize |-> 0, totalCompressedSize |-> 0,
   compressionRatio |-> 0, brotliFiles |-> 0, gzipFiles |-> 0]

EmptyStats(n) ==
  [totalFiles |-> n, compressedFiles |-> 0, skippedFiles |-> 0,
   failedFiles |-> 0, totalOriginalSize |-> 0, totalCompressedSize |-> 0,
   compressionRatio |-> 0, brotliFiles |-> 0, gzipFiles |-> 0]

IdleOp ==
  [pc |-> "idle", attempt |-> 0, lastError |-> NoError,
   results |-> EmptyResults, reason |-> NoError]

\* writeStream.on('data', ...) is the only place compressedSize grows, and a
\* writable stream never emits 'data': the size resolved is the initial 0.
compressedSize == 0

SettledOrWaiting(o) == o.pc \in {"fulfilled", "rejected", "backoff"}

Settled(o) == o.pc \in {"fulfilled", "rejected"}
Started(o) == o.pc # "idle"
InFlight == {f \in FileIds : Started(op[f]) /\ ~Settled(op[f])}

\* ------------------------------------------------------------------ Init
\* The options of the scheduler, with a walk that takes every .js file.
Options ==
  [type : CompressionType, parallel : BOOLEAN, maxParallel : 1..MaxParallel,
   continueOnError : BOOLEAN, retryAttempts : 0..MaxRetry,
   deleteOriginal : BOOLEAN, errorCallback : CallbackKinds,
   extensions : {<<JsExt>>}, minSize : {0}, maxSize : {Undefined},
   excludePatterns : {<<>>}, includePatterns : {<<>>},
   shouldCompress : {"none"}, skipExisting : {FALSE},
   verbose : {FALSE}]

\* Before the first build: nothing written, and the directory as found.
NoPrev(fs) == [builds |-> 0, written |-> {}, fsys |-> fs, rejected |-> FALSE]
NoProbe == [fn |-> "none"]

\* What the first build starts from, whatever the directory and the
\* options: nothing has run.
Unstarted ==
  /\ files = <<>>
  /\ written = {}
  /\ hook = "idle"
  /\ batch = "notStarted"
  /\ idx = 0
  /\ op = [f \in FileIds |-> IdleOp]
  /\ stats = EmptyStats(0)
  /\ cbLog = <<>>
  /\ attempts = [f \in FileIds |-> 0]
  /\ tried = [f \in FileIds |-> {}]
  /\ unlinkFailed = {}
  /\ crashed = FALSE
  /\ prev = NoPrev(fsys)

\* Vite has resolved its configuration, as it does before it closes a bundle.
Fresh ==
  /\ Unstarted
  /\ viteConfig = Defined(RootDir)

\* A flat output directory whose first n files are .js files.
Init ==
  /\ options \in Options
  /\ options.parallel \/ options.maxParallel = 1
  /\ \E n \in 0..MaxFiles :
       disk = [ext |-> [f \in FileIds |-> IF f <= n THEN JsExt ELSE PngExt],
               dir |-> [f \in FileIds |-> RootDir],
               order |-> [i \in FileIds |-> i],
               unlistable |-> {}, link |-> FALSE]
  /\ fsys = {SourcePath(f) : f \in FileIds}
  /\ faults = 0
  /\ probe = NoProbe
  /\ Fresh



\* ------------------------------------------- direct calls of the helpers
MaxSize == 2

\* Glob patterns, as the README writes them and as absolute paths.
VendorGlob == <<"*", "*", "/", "v", "/", "*", "*">>
AnyJsGlob == <<"*", "*", "/", "*", ".", "j", "s">>
OneCharGlob == <<"a", "?", "c">>
RootJsGlob == <<"/", "o", "/", "*", ".", "j", "s">>
VendorFilesGlob == <<"/", "o", "/", "v", "/", "*">>

RootJsPath == <<"/", "o", "/", "1", ".", "j", "s">>
VendorJsPath == <<"/", "o", "/", "v", "/", "1", ".", "j", "s">>
DeepVendorJsPath == <<"/", "o", "/", "v", "/", "w", "/", "1", ".", "j", "s">>
RelativeVendorPath == <<"v", "/", "1", ".", "j", "s">>
DotVendorPath == <<".", "/", "v", "/", ".", "x">>
DotJsPath == <<".", "/", "1", ".", "j", "s">>
BareJsPath == <<"1", ".", "j", "s">>
OneCharPaths == {<<"a", x, "c">> : x \in {"b", ".", "/", "?"}}

GlobProbes ==
  [fn : {"matchesPattern"},
   filePath : OneCharPaths \cup
              {<<"a", "c">>, <<"a", "b", "b", "c">>, RootJsPath, VendorJsPath,
               DeepVendorJsPath, RelativeVendorPath, DotVendorPath, DotJsPath,
               BareJsPath},
   patterns : {<<>>, <<VendorGlob>>, <<AnyJsGlob>>, <<OneCharGlob>>,
               <<RootJsGlob>>, <<VendorFilesGlob>>, <<OneCharGlob, AnyJsGlob>>},
   done : {FALSE}, result : {FALSE}, branch : {"none"}]

PatternLists == {<<>>, <<RootJsGlob>>, <<VendorFilesGlob>>, <<AnyJsGlob>>}

EligibilityProbes ==
  [fn : {"shouldCompressFile"},
   filePath : {RootJsPath, VendorJsPath},
   fileSize : 0..MaxSize, minSize : 0..MaxSize,
   maxSize : {Undefined} \cup {Defined(n) : n \in 0..MaxSize},
   excludePatterns : PatternLists, includePatterns : PatternLists,
   shouldCompress : CustomPredicates,
   done : {FALSE}, result : {FALSE}, branch : {"none"}]

\* The codecs' valid ranges, and how far outside them a configured value
\* may lie.
BrotliMaxQuality == 11
GzipMaxLevel == 9
MaxExcess == 2

Max(a, b) == IF a > b THEN a ELSE b

\* [zlib.constants.BROTLI_PARAM_QUALITY]: Math.min(Math.max(quality, 0), 11)
BrotliParamUnclamped(quality) == quality

BrotliParam(quality) == Min(Max(quality, 0), BrotliMaxQuality)

\* level: Math.min(Math.max(options.gzipLevel, 0), 9)
GzipParam(gzipLevel) == Min(Max(gzipLevel, 0), GzipMaxLevel)

\* zlib.createBrotliCompress / zlib.createGzip throw on a value outside the
\* codec's range (gzip also takes -1, the library's default level); thrown
\* inside the promise executor, that rejects the codec's promise.
CreateThrows(codec, param) ==
  IF codec = "brotli" THEN param \notin 0..BrotliMaxQuality
  ELSE param \notin (0 - 1)..GzipMaxLevel

CodecProbes ==
  [fn : {"compressWithBrotli", "compressWithGzip"},
   level : (0 - MaxExcess)..(BrotliMaxQuality + MaxExcess),
   param : {0}, done : {FALSE}, result : {FALSE}, branch : {"none"}]

\* No build runs; a helper is about to be called with the probe's arguments.
PureInit ==
  /\ probe \in GlobProbes \cup EligibilityProbes \cup CodecProbes
  /\ options \in Options
  /\ options.type = "brotli" /\ options.parallel /\ options.maxParallel = 1
  /\ options.continueOnError /\ options.retryAttempts = 0
  /\ ~options.deleteOriginal /\ options.errorCallback = "none"
  /\ disk = [ext |-> [f \in FileIds |-> JsExt],
             dir |-> [f \in FileIds |-> RootDir],
             order |-> [i \in FileIds |-> i],
             unlistable |-> {}, link |-> FALSE]
  /\ fsys = {SourcePath(f) : f \in FileIds}
  /\ faults = 0
  /\ Fresh

Idle == <<options, files, fsys, written, hook, batch, idx, op, stats, cbLog,
          attempts, tried, unlinkFailed, crashed, faults, disk, prev,
          viteConfig>>

CallMatchesPattern ==
  /\ probe.fn = "matchesPattern"
  /\ ~probe.done
  /\ probe' = [probe EXCEPT
                 !.done = TRUE,
                 !.result = matchesPattern(probe.filePath, probe.patterns)]
  /\ UNCHANGED Idle

CallShouldCompressFile ==
  /\ probe.fn = "shouldCompressFile"
  /\ ~probe.done
  /\ probe' = [probe EXCEPT
                 !.done = TRUE,
                 !.result = shouldCompressFile(probe.filePath, probe.fileSize,
                              probe.minSize, probe.maxSize,
                              probe.excludePatterns, probe.includePatterns,
                              probe.shouldCompress),
                 !.branch = ShouldCompressBranch(probe.filePath, probe.fileSize,
                              probe.minSize, probe.maxSize,
                              probe.excludePatterns, probe.includePatterns,
                              probe.shouldCompress)]
  /\ UNCHANGED Idle

\* The stream a codec function creates: the parameter handed to zlib, and
\* whether the creation throws (result: the codec's promise is rejected).
CallCompressWithBrotli ==
  /\ probe.fn = "compressWithBrotli"
  /\ ~probe.done
  /\ probe' = [probe EXCEPT
                 !.done = TRUE,
                 !.param = BrotliParam(probe.level),
                 !.result = CreateThrows("brotli", BrotliParam(probe.level))]
  /\ UNCHANGED Idle

CallCompressWithGzip ==
  /\ probe.fn = "compressWithGzip"
  /\ ~probe.done
  /\ probe' = [probe EXCEPT
                 !.done = TRUE,
                 !.param = GzipParam(probe.level),
                 !.result = CreateThrows("gzip", GzipParam(probe.level))]
  /\ UNCHANGED Idle

PureNext ==
  \/ CallMatchesPattern
  \/ CallShouldCompressFile
  \/ CallCompressWithBrotli
  \/ CallCompressWithGzip

PureSpec == PureInit /\ [][PureNext]_vars

\* ------------------------------------------------- compressFileWithRetry
Range(seq) == {seq[i] : i \in 1..Len(seq)}

Codecs == {"brotli", "gzip"}

\* The codec compressFile runs first for the requested type.
FirstCodecAlwaysBrotli(type) == "brotli"

FirstCodec(type) == IF type \in {"brotli", "both"} THEN "brotli" ELSE "gzip"

\* After a raised attempt, another one follows (after the backoff wait).
RetryAllowedOneShort(attempt, retryAttempts) == attempt + 1 < retryAttempts

RetryAllowed(attempt, retryAttempts) == attempt < retryAttempts

\* The catch block of the retry loop, and what follows the loop once the
\* attempts are used up: the callback is invoked, and the call rejects with
\* lastError unless the callback itself threw.
Raise(o, f) ==
  LET e == StatError(f, o.attempt) IN
  IF RetryAllowed(o.attempt, options.retryAttempts)
    THEN [o EXCEPT !.pc = "backoff", !.lastError = e]
    ELSE [o EXCEPT !.pc = "rejected", !.lastError = e,
                   !.reason = IF Throws(options.errorCallback)
                                THEN Thrown(options.errorCallback) ELSE e]

\* compressFile up to its first await: statSync, then the first codec's
\* streams are opened. A throwing statSync rejects the attempt.
StartAttempt(o, f, statThrows) ==
  IF statThrows
    THEN Raise(o, f)
    ELSE [o EXCEPT !.pc = FirstCodec(options.type),
                   !.results = [EmptyResults EXCEPT
                                  !.totalOriginalSize = StatSize(f)]]

\* The errorCallback invocations made by a launch, in call order.
RECURSIVE LaunchCalls(_, _)
LaunchCalls(members, newOp) ==
  IF members = <<>> THEN <<>>
  ELSE LET f == Head(members) IN
       (IF newOp[f].pc = "rejected" /\ options.errorCallback # "none"
          THEN <<[error |-> newOp[f].lastError, filePath |-> f]>>
          ELSE <<>>) \o LaunchCalls(Tail(members), newOp)

\* compressFileWithRetry is called for every member, each running to its
\* first suspension point; st[f] says whether statSync throws for f.
Launch(base, members, st, log) ==
  /\ faults + Cardinality({f \in Range(members) : st[f]}) <= MaxFaults
  /\ faults' = faults + Cardinality({f \in Range(members) : st[f]})
  /\ op' = [f \in FileIds |->
              IF f \in Range(members) THEN StartAttempt(base[f], f, st[f])
              ELSE base[f]]
  /\ fsys' = fsys \cup {ArtifactPath(f, op'[f].pc) :
                          f \in {g \in Range(members) : op'[g].pc \in Codecs}}
  /\ cbLog' = log \o LaunchCalls(members, op')
  /\ attempts' = [f \in FileIds |->
                    IF f \in Range(members) THEN attempts[f] + 1
                    ELSE attempts[f]]
  /\ tried' = [f \in FileIds |->
                 IF f \in Range(members)
                   THEN (IF op'[f].pc \in Codecs THEN {op'[f].pc} ELSE {})
                   ELSE tried[f]]

\* -------------------------------------------------------- compressFiles
\* The unit compressFiles waits for: a chunk, or one file.
UnitOfPair(list, k) ==
  IF options.parallel THEN chunkArray(list, options.maxParallel)[k]
  ELSE SubSeq(list, k, Min(k + 1, Len(list)))

UnitOf(list, k) ==
  IF options.parallel THEN chunkArray(list, options.maxParallel)[k]
  ELSE <<list[k]>>

Unit(k) == UnitOf(files, k)

NumUnits ==
  IF options.parallel THEN Len(chunkArray(files, options.maxParallel))
  ELSE Len(files)

FoldLastWins(s, o) ==
  IF o.pc = "fulfilled"
    THEN [s EXCEPT
            !.compressedFiles = @ + o.results.compressedFiles,
            !.failedFiles = @ + o.results.failedFiles,
            !.totalOriginalSize = o.results.totalOriginalSize,
            !.totalCompressedSize = @ + o.results.totalCompressedSize,
            !.brotliFiles = @ + o.results.brotliFiles,
            !.gzipFiles = @ + o.results.gzipFiles]
    ELSE [s EXCEPT !.failedFiles = @ + 1]

\* One settled result folded into the statistics.
Fold(s, o) ==
  IF o.pc = "fulfilled"
    THEN [s EXCEPT
            !.compressedFiles = @ + o.results.compressedFiles,
            !.failedFiles = @ + o.results.failedFiles,
            !.totalOriginalSize = @ + o.results.totalOriginalSize,
            !.totalCompressedSize = @ + o.results.totalCompressedSize,
            !.brotliFiles = @ + o.results.brotliFiles,
            !.gzipFiles = @ + o.results.gzipFiles]
    ELSE [s EXCEPT !.failedFiles = @ + 1]

FoldChunkFirstOnly(s, members) ==
  IF members = <<>> THEN s ELSE Fold(s, op[Head(members)])

RECURSIVE FoldChunk(_, _)
FoldChunk(s, members) ==
  IF members = <<>> THEN s
  ELSE FoldChunk(Fold(s, op[Head(members)]), Tail(members))

\* `${result.reason}` in the warning of a rejected result: the conversion
\* to a string throws a TypeError for a Symbol.
ToStringThrows(value) == value = SymbolError

\* The position of the first result of the chunk whose warning throws; 0
\* when the loop over the results completes.
RECURSIVE ThrowAt(_, _, _)
ThrowAt(verbose, members, i) ==
  IF i > Len(members) THEN 0
  ELSE IF /\ op[members[i]].pc = "rejected"
          /\ verbose
          /\ ToStringThrows(op[members[i]].reason)
    THEN i
  ELSE ThrowAt(verbose, members, i + 1)

\* The loop over the results of a chunk: each is folded, and a rejected one
\* is warned about when verbose is set; a throwing warning leaves the loop
\* after its result was counted.
ChunkFold(verbose, s, members) ==
  LET t == ThrowAt(verbose, members, 1) IN
  IF t = 0 THEN [stats |-> FoldChunk(s, members), threw |-> FALSE]
  ELSE [stats |-> FoldChunk(s, SubSeq(members, 1, t)), threw |-> TRUE]

\* compressionRatio, as a whole percentage (the code keeps the fraction).
FinalizeOfCompressed(s) ==
  [s EXCEPT !.compressionRatio =
     IF s.totalOriginalSize > 0
       THEN (s.totalCompressedSize * 100) \div s.totalOriginalSize
       ELSE 0]

Finalize(s) ==
  [s EXCEPT !.compressionRatio =
     IF s.totalOriginalSize > 0
       THEN ((s.totalOriginalSize - s.totalCompressedSize) * 100)
              \div s.totalOriginalSize
       ELSE 0]

\* closeBundle's catch block: the error is logged, and thrown again unless
\* continueOnError is set.
CatchOutcomeSwallows(continueOnError) == "resolved"

CatchOutcome(continueOnError) ==
  IF continueOnError THEN "resolved" ELSE "rejected"

\* viteConfig.build.outDir
OutDirDefault(config) == RootDir

OutDir(config) == config[1]

\* configResolved(resolvedConfig): the configuration is stored.
configResolved(outDir) ==
  /\ hook = "idle"
  /\ viteConfig' = Defined(outDir)
  /\ UNCHANGED <<options, files, fsys, written, hook, batch, idx, op, stats,
                 cbLog, attempts, tried, unlinkFailed, crashed, faults, disk,
                 prev, probe>>

\* closeBundle: reading the output directory of a configuration that was
\* never stored throws, before the try block. Else the walk yields the
\* candidate list; it is empty and the hook returns, or compressFiles starts
\* and launches its first chunk or file.
closeBundle ==
  /\ hook = "idle"
  /\ ~crashed
  /\ IF viteConfig = Undefined
       THEN /\ hook' = "rejected"
            /\ UNCHANGED <<files, batch, idx, stats, op, fsys, cbLog, attempts,
                           tried, faults>>
       ELSE
         /\ files' = findFiles(OutDir(viteConfig), options, fsys)
         /\ IF Len(files') = 0
              THEN /\ hook' = "resolved"
                   /\ UNCHANGED <<batch, idx, stats, op, fsys, cbLog, attempts,
                                  tried, faults>>
              ELSE /\ hook' = "running"
                   /\ batch' = "running"
                   /\ idx' = 1
                   /\ stats' = EmptyStats(Len(files'))
                   /\ \E st \in [Range(UnitOf(files', 1)) -> BOOLEAN] :
                        Launch(op, UnitOf(files', 1), st, cbLog)
  /\ UNCHANGED <<options, viteConfig, written, unlinkFailed, crashed, disk, prev, probe>>

\* Promise.allSettled resolves: the chunk is folded, then the next chunk is
\* launched or the statistics are finalized and returned. A warning that
\* throws leaves compressFiles and is handled by closeBundle's catch.
ChunkSettled ==
  /\ batch = "running"
  /\ ~crashed
  /\ options.parallel
  /\ \A f \in Range(Unit(idx)) : Settled(op[f])
  /\ LET loop == ChunkFold(options.verbose, stats, Unit(idx))
         folded == loop.stats
     IN
     IF loop.threw
       THEN /\ stats' = folded
            /\ batch' = "threw"
            /\ hook' = CatchOutcome(options.continueOnError)
            /\ UNCHANGED <<idx, op, fsys, cbLog, attempts, tried, faults>>
     ELSE IF idx < NumUnits
       THEN /\ idx' = idx + 1
            /\ stats' = folded
            /\ \E st \in [Range(Unit(idx + 1)) -> BOOLEAN] :
                 Launch(op, Unit(idx + 1), st, cbLog)
            /\ UNCHANGED <<batch, hook>>
       ELSE /\ stats' = Finalize(folded)
            /\ batch' = "returned"
            /\ hook' = "resolved"
            /\ UNCHANGED <<idx, op, fsys, cbLog, attempts, tried, faults>>
  /\ UNCHANGED <<options, viteConfig, files, written, unlinkFailed, crashed, disk, prev,
               probe>>

\* The sequential loop resumes after one file: try body or catch block, then
\* the next file or the return. A callback that throws inside the catch block
\* leaves compressFiles and is handled by closeBundle's catch.
FileSettled ==
  /\ batch = "running"
  /\ ~crashed
  /\ ~options.parallel
  /\ Settled(op[files[idx]])
  /\ LET f == files[idx]
         o == op[f]
         folded == Fold(stats, o)
         log == IF o.pc = "rejected" /\ options.errorCallback # "none"
                  THEN Append(cbLog, [error |-> o.reason, filePath |-> f])
                  ELSE cbLog
     IN
     IF o.pc = "rejected" /\ Throws(options.errorCallback)
       THEN /\ stats' = folded
            /\ cbLog' = log
            /\ batch' = "threw"
            /\ hook' = CatchOutcome(options.continueOnError)
            /\ UNCHANGED <<idx, op, fsys, attempts, tried, faults>>
       ELSE IF idx < NumUnits
         THEN /\ idx' = idx + 1
              /\ stats' = folded
              /\ \E st \in [Range(Unit(idx + 1)) -> BOOLEAN] :
                   Launch(op, Unit(idx + 1), st, log)
              /\ UNCHANGED <<batch, hook>>
         ELSE /\ stats' = Finalize(folded)
              /\ cbLog' = log
              /\ batch' = "returned"
              /\ hook' = "resolved"
              /\ UNCHANGED <<idx, op, fsys, attempts, tried, faults>>
  /\ UNCHANGED <<options, viteConfig, files, written, unlinkFailed, crashed, disk, prev,
               probe>>


\* --------------------------------------------------------- compressFile
\* results after one codec's promise settled: resolved on 'finish', rejected
\* (and caught by compressFile) on a write or read stream 'error'.
CodecSettledDropsFailure(results, codec, ev) ==
  IF ev = "finish"
    THEN [results EXCEPT
            !.compressedFiles = @ + 1,
            !.brotliFiles = IF codec = "brotli" THEN 1 ELSE @,
            !.gzipFiles = IF codec = "gzip" THEN 1 ELSE @]
    ELSE results

CodecSettled(results, codec, ev) ==
  IF ev = "finish"
    THEN [results EXCEPT
            !.compressedFiles = @ + 1,
            !.totalCompressedSize = @ + compressedSize,
            !.brotliFiles = IF codec = "brotli" THEN 1 ELSE @,
            !.gzipFiles = IF codec = "gzip" THEN 1 ELSE @]
    ELSE [results EXCEPT !.failedFiles = @ + 1]

\* The guard of fs.unlinkSync(filePath).
ShouldDeleteAlways(deleteOriginal, results) == deleteOriginal

ShouldDelete(deleteOriginal, results) ==
  deleteOriginal /\ results.compressedFiles > 0

\* After the Brotli block of compressFile comes the gzip block when gzip is
\* requested as well; after the last block, the deletion.
GzipFollowsNever(codec, type) == FALSE

GzipFollows(codec, type) == codec = "brotli" /\ type = "both"

\* The results compressFile resolves with once the deletion was tried: the
\* catch around unlinkSync leaves them alone.
AfterUnlinkCountsFailure(results, unlinkThrows) ==
  IF unlinkThrows THEN [results EXCEPT !.failedFiles = @ + 1] ELSE results

AfterUnlink(results, unlinkThrows) == results

\* An event of the streams of the codec run f is waiting for. 'finish' and
\* the write/read 'error' settle the codec's promise and compressFile goes
\* on: to gzip after brotli when both are requested, else to the deletion
\* of the original and resolve(results). An 'error' of the compress stream
\* has no listener: the promise never settles, and the unhandled event ends
\* the process unless the host installed an uncaughtException handler.
StreamEvent(f, ev) ==
  /\ ~crashed
  /\ op[f].pc \in Codecs
  /\ ev = "finish" \/ faults < MaxFaults
  /\ LET codec == op[f].pc
         results == CodecSettled(op[f].results, codec, ev)
         after == IF ev = "finish" THEN faults ELSE faults + 1
     IN
     IF ev = "compressError"
       THEN /\ op' = [op EXCEPT ![f].pc = "hung"]
            /\ crashed' \in BOOLEAN
            /\ faults' = after
            /\ UNCHANGED <<fsys, written, tried, unlinkFailed>>
       ELSE /\ crashed' = crashed
            /\ written' = IF ev = "finish"
                            THEN written \cup {ArtifactPath(f, codec)}
                            ELSE written
            /\ IF GzipFollows(codec, options.type)
                 THEN /\ op' = [op EXCEPT ![f].pc = "gzip",
                                          ![f].results = results]
                      /\ fsys' = fsys \cup {GzipPath(f)}
                      /\ tried' = [tried EXCEPT ![f] = @ \cup {"gzip"}]
                      /\ faults' = after
                      /\ UNCHANGED unlinkFailed
                 ELSE /\ tried' = tried
                      /\ IF ShouldDelete(options.deleteOriginal, results)
                           THEN \E unlinkThrows \in BOOLEAN :
                                  /\ op' = [op EXCEPT
                                              ![f].pc = "fulfilled",
                                              ![f].results =
                                                AfterUnlink(results, unlinkThrows)]
                                  /\ IF unlinkThrows
                                       THEN /\ after < MaxFaults
                                            /\ faults' = after + 1
                                            /\ unlinkFailed' = unlinkFailed \cup {f}
                                            /\ fsys' = fsys
                                       ELSE /\ faults' = after
                                            /\ unlinkFailed' = unlinkFailed
                                            /\ fsys' = fsys \ {SourcePath(f)}
                           ELSE /\ op' = [op EXCEPT ![f].pc = "fulfilled",
                                                    ![f].results = results]
                                /\ faults' = after
                                /\ UNCHANGED <<fsys, unlinkFailed>>
  /\ UNCHANGED <<options, viteConfig, files, hook, batch, idx, stats, cbLog, attempts,
               disk, prev, probe>>

\* The backoff timer fires: attempt++ and the next compressFile call.
RetryTimer(f) ==
  /\ ~crashed
  /\ op[f].pc = "backoff"
  /\ \E statThrows \in BOOLEAN :
       Launch([op EXCEPT ![f].attempt = @ + 1], <<f>>,
              [g \in {f} |-> statThrows], cbLog)
  /\ UNCHANGED <<options, viteConfig, files, written, hook, batch, idx, stats,
                 unlinkFailed, crashed, disk, prev, probe>>

Next ==
  \/ closeBundle
  \/ ChunkSettled
  \/ FileSettled
  \/ \E f \in FileIds, ev \in StreamEvents : StreamEvent(f, ev)
  \/ \E f \in FileIds : RetryTimer(f)

Spec == Init /\ [][Next]_vars

\* ------------------------------------------------- a predicate that throws
\* A flat directory of .js files listed in any order, with a custom
\* predicate that may throw, and at most one fault in the batch.
PredicateInit ==
  /\ \E o \in Options,
        shouldCompress \in {"none", "acceptAll", "throwsOnOne"} :
       options = [o EXCEPT !.shouldCompress = shouldCompress]
  /\ options.type = "gzip"
  /\ options.parallel /\ options.maxParallel = MaxParallel
  /\ options.retryAttempts = 0 /\ ~options.deleteOriginal
  /\ options.errorCallback # "throws"
  /\ disk \in [ext : {[f \in FileIds |-> JsExt]},
                dir : {[f \in FileIds |-> RootDir]},
                order : Permutations(FileIds),
                unlistable : {{}}, link : {FALSE}]
  /\ fsys = {SourcePath(f) : f \in FileIds}
  /\ faults = MaxFaults - 1
  /\ probe = NoProbe
  /\ Fresh

PredicateNext ==
  \/ closeBundle
  \/ ChunkSettled
  \/ \E f \in FileIds, ev \in StreamEvents : StreamEvent(f, ev)

PredicateSpec == PredicateInit /\ [][PredicateNext]_vars

\* ------------------------------------------------- the partitioning loop
\* The chunks kept before memory runs out.
MaxChunks == 5

\* A relative index of Array.prototype.slice: negative counts from the end.
RelativeIndex(k, len) == IF k < 0 THEN Max(len + k, 0) ELSE Min(k, len)

\* array.slice(start, end)
ArraySlice(array, start, end) ==
  SubSeq(array, RelativeIndex(start, Len(array)) + 1,
         RelativeIndex(end, Len(array)))

\* i += chunkSize
NextIndexAtLeastOne(i, chunkSize) == i + Max(chunkSize, 1)

NextIndex(i, chunkSize) == i + chunkSize

\* closeBundle has walked a flat directory with at least one .js file and
\* called compressFiles in parallel mode, with maxParallel as configured:
\* any integer. compressFiles is about to call chunkArray.
ChunkInit ==
  /\ \E o \in Options, maxParallel \in (0 - MaxParallel)..MaxParallel :
       options = [o EXCEPT !.maxParallel = maxParallel]
  /\ options.type = "brotli" /\ options.parallel
  /\ options.continueOnError /\ options.retryAttempts = 0
  /\ ~options.deleteOriginal /\ options.errorCallback = "none"
  /\ \E n \in 1..MaxFiles :
       disk \in [ext : {[f \in FileIds |-> IF f <= n THEN JsExt ELSE PngExt]},
                 dir : {[f \in FileIds |-> RootDir]},
                 order : Permutations(FileIds),
                 unlistable : {{}}, link : {FALSE}]
  /\ fsys = {SourcePath(f) : f \in FileIds}
  /\ files = findFiles(RootDir, options, fsys)
  /\ hook = "running"
  /\ batch = "partitioning"
  /\ stats = EmptyStats(Len(files))
  /\ probe = [fn |-> "chunkArray", array |-> files,
              chunkSize |-> options.maxParallel, i |-> 0, chunks |-> <<>>,
              done |-> FALSE]
  /\ written = {}
  /\ idx = 0
  /\ op = [f \in FileIds |-> IdleOp]
  /\ cbLog = <<>>
  /\ attempts = [f \in FileIds |-> 0]
  /\ tried = [f \in FileIds |-> {}]
  /\ unlinkFailed = {}
  /\ crashed = FALSE
  /\ faults = 0
  /\ prev = NoPrev(fsys)
  /\ viteConfig = Defined(RootDir)

\* One iteration of the for loop of chunkArray.
ChunkArrayStep ==
  /\ probe.fn = "chunkArray"
  /\ ~probe.done
  /\ probe.i < Len(probe.array)
  /\ Len(probe.chunks) < MaxChunks
  /\ probe' = [probe EXCEPT
                 !.chunks = Append(@, ArraySlice(probe.array, probe.i,
                                                 probe.i + probe.chunkSize)),
                 !.i = NextIndex(probe.i, probe.chunkSize)]
  /\ UNCHANGED Idle

\* The loop is left: chunkArray returns, and compressFiles starts the
\* calls of the first chunk.
ChunkArrayReturn ==
  /\ probe.fn = "chunkArray"
  /\ ~probe.done
  /\ ~(probe.i < Len(probe.array))
  /\ probe' = [probe EXCEPT !.done = TRUE]
  /\ batch' = "running"
  /\ idx' = 1
  /\ \E st \in [Range(probe.chunks[1]) -> BOOLEAN] :
       Launch(op, probe.chunks[1], st, cbLog)
  /\ UNCHANGED <<options, viteConfig, files, written, hook, stats, unlinkFailed, crashed,
                 disk, prev>>

ChunkNext == ChunkArrayStep \/ ChunkArrayReturn

\* The loop runs on as long as it can.
ChunkSpec ==
  /\ ChunkInit
  /\ [][ChunkNext]_vars
  /\ WF_vars(ChunkArrayStep)
  /\ WF_vars(ChunkArrayReturn)

\* ----------------------------------------------------- the statistics
\* Any number of .js files of any size from 0 on, every type and mode, with
\* retries; no callback, nothing deleted.
StatsInit ==
  /\ Init
  /\ options.continueOnError
  /\ options.errorCallback = "none"
  /\ ~options.deleteOriginal

StatsSpec == StatsInit /\ [][Next]_vars

\* ------------------------------------------------------ the verbose flag
\* Either mode with verbose on or off, stat failures, and a callback that
\* may throw any value.
VerboseOptions ==
  [type : {"gzip"}, parallel : BOOLEAN, maxParallel : 1..MaxParallel,
   continueOnError : BOOLEAN, retryAttempts : {0},
   deleteOriginal : {FALSE},
   errorCallback : CallbackKinds \cup {"throwsSymbol"},
   extensions : {<<JsExt>>}, minSize : {0}, maxSize : {Undefined},
   excludePatterns : {<<>>}, includePatterns : {<<>>},
   shouldCompress : {"none"}, skipExisting : {FALSE}, verbose : BOOLEAN]

VerboseInit ==
  /\ options \in VerboseOptions
  /\ options.parallel \/ options.maxParallel = 1
  /\ disk = [ext |-> [f \in FileIds |-> JsExt],
             dir |-> [f \in FileIds |-> RootDir],
             order |-> [i \in FileIds |-> i],
             unlistable |-> {}, link |-> FALSE]
  /\ fsys = {SourcePath(f) : f \in FileIds}
  /\ faults = 0
  /\ probe = NoProbe
  /\ Fresh

VerboseNext ==
  \/ closeBundle
  \/ ChunkSettled
  \/ FileSettled
  \/ \E f \in FileIds, ev \in StreamEvents : StreamEvent(f, ev)

VerboseSpec == VerboseInit /\ [][VerboseNext]_vars

\* ------------------------------------------------- the directory tree
\* .js files spread over the output directory and its subdirectory; either
\* directory may be unlistable, and the subdirectory may hold a link back
\* to the output directory. No stream fails.
TreeOptions ==
  [type : {"gzip"}, parallel : {TRUE}, maxParallel : {MaxParallel},
   continueOnError : {TRUE}, retryAttempts : {0},
   deleteOriginal : BOOLEAN, errorCallback : {"none"},
   extensions : {<<JsExt>>}, minSize : {0}, maxSize : {Undefined},
   excludePatterns : {<<>>}, includePatterns : {<<>>},
   shouldCompress : {"none"}, skipExisting : {FALSE},
   verbose : {FALSE}]

TreeInit ==
  /\ options \in TreeOptions
  /\ disk \in [ext : {[f \in FileIds |-> JsExt]},
                dir : [FileIds -> Dirs],
                order : {[i \in FileIds |-> i]},
                unlistable : SUBSET Dirs, link : BOOLEAN]
  /\ fsys = {SourcePath(f) : f \in FileIds}
  /\ faults = MaxFaults
  /\ probe = NoProbe
  /\ Fresh

TreeNext ==
  \/ closeBundle
  \/ ChunkSettled
  \/ \E f \in FileIds, ev \in StreamEvents : StreamEvent(f, ev)

TreeSpec == TreeInit /\ [][TreeNext]_vars

\* ------------------------------------------------- the nested files
\* Files spread over the output directory and its subdirectory, the last
\* of them a .js or a .png file, the first one empty; either directory may
\* be unlistable, and a .gz sibling of the second file may be there already.
\* No stream fails.
NestedOptions ==
  [type : {"gzip"}, parallel : {TRUE}, maxParallel : {MaxParallel},
   continueOnError : {TRUE}, retryAttempts : {0},
   deleteOriginal : {FALSE}, errorCallback : {"none"},
   extensions : {<<JsExt>>}, minSize : {0, 1}, maxSize : {Undefined},
   excludePatterns : {<<>>}, includePatterns : {<<>>},
   shouldCompress : {"none"}, skipExisting : BOOLEAN,
   verbose : {FALSE}]

NestedInit ==
  /\ options \in NestedOptions
  /\ disk \in [ext : {[f \in FileIds |-> IF f = MaxFiles THEN e ELSE JsExt] :
                         e \in {JsExt, PngExt}},
                dir : [FileIds -> Dirs],
                order : {[i \in FileIds |-> i]},
                unlistable : SUBSET Dirs, link : {FALSE}]
  /\ \E left \in SUBSET {GzipPath(2)} :
       fsys = {SourcePath(f) : f \in FileIds} \cup left
  /\ faults = MaxFaults
  /\ probe = NoProbe
  /\ Fresh

NestedNext ==
  \/ closeBundle
  \/ ChunkSettled
  \/ \E f \in FileIds, ev \in StreamEvents : StreamEvent(f, ev)

NestedSpec == NestedInit /\ [][NestedNext]_vars

\* ------------------------------------------------- any order of listing
\* Parallel mode over a flat directory of .js files that the operating
\* system may list in any order.
OrderInit ==
  /\ options \in Options
  /\ options.parallel
  /\ options.continueOnError /\ options.retryAttempts = 0
  /\ ~options.deleteOriginal /\ options.errorCallback = "none"
  /\ disk \in [ext : {[f \in FileIds |-> JsExt]},
                dir : {[f \in FileIds |-> RootDir]},
                order : Permutations(FileIds),
                unlistable : {{}}, link : {FALSE}]
  /\ fsys = {SourcePath(f) : f \in FileIds}
  /\ faults = 0
  /\ probe = NoProbe
  /\ Fresh

OrderNext ==
  \/ closeBundle
  \/ ChunkSettled
  \/ \E f \in FileIds, ev \in StreamEvents : StreamEvent(f, ev)

OrderSpec == OrderInit /\ [][OrderNext]_vars

\* ------------------------------------------------------- repeated builds
MaxBuilds == 2

\* The walk options vary; the scheduler runs one file at a time, without
\* retries or callback, and the environment has one fault left.
WalkOptions ==
  [type : CompressionType, parallel : {TRUE}, maxParallel : {1},
   continueOnError : {TRUE}, retryAttempts : {0},
   deleteOriginal : BOOLEAN, errorCallback : {"none"},
   extensions : {<<JsExt>>}, minSize : {0, 1}, maxSize : {Undefined},
   excludePatterns : {<<>>}, includePatterns : {<<>>},
   shouldCompress : {"none"}, skipExisting : BOOLEAN,
   verbose : {FALSE}]

\* Any extension per file, file 1 in either directory, and possibly
\* siblings of file 1 left by something else.
WalkInit ==
  /\ options \in WalkOptions
  /\ disk \in [ext : [FileIds -> FileExts],
                dir : {[f \in FileIds |-> IF f = 1 THEN d ELSE RootDir] :
                         d \in Dirs},
                order : {[i \in FileIds |-> i]},
                unlistable : {{}}, link : {FALSE}]
  /\ \E left \in SUBSET {BrotliPath(1), GzipPath(1)} :
       fsys = {SourcePath(f) : f \in FileIds} \cup left
  /\ faults = MaxFaults - 1
  /\ probe = NoProbe
  /\ Fresh

\* Vite builds again: closeBundle will be called anew on the directory the
\* finished build left.
NextBuild ==
  /\ hook \in {"resolved", "rejected"}
  /\ ~crashed
  /\ prev.builds + 1 < MaxBuilds
  /\ prev' = [builds |-> prev.builds + 1,
              written |-> prev.written \cup written,
              rejected |-> hook = "rejected",
              fsys |-> fsys]
  /\ files' = <<>>
  /\ written' = {}
  /\ hook' = "idle"
  /\ batch' = "notStarted"
  /\ idx' = 0
  /\ op' = [f \in FileIds |-> IdleOp]
  /\ stats' = EmptyStats(0)
  /\ cbLog' = <<>>
  /\ attempts' = [f \in FileIds |-> 0]
  /\ tried' = [f \in FileIds |-> {}]
  /\ unlinkFailed' = {}
  /\ UNCHANGED <<options, viteConfig, fsys, crashed, faults, disk, probe>>

WalkNext ==
  \/ closeBundle
  \/ ChunkSettled
  \/ \E f \in FileIds, ev \in StreamEvents : StreamEvent(f, ev)
  \/ NextBuild

WalkSpec == WalkInit /\ [][WalkNext]_vars

\* ------------------------------------------------- the order of the hooks
\* The plugin object as brotliCompress returns it: no configuration stored
\* yet. The caller may resolve a configuration, naming either directory as
\* the output directory, or close a bundle, in any order, and build again.
\* No stream fails.
HookOptions ==
  [type : {"gzip"}, parallel : {TRUE}, maxParallel : {MaxParallel},
   continueOnError : BOOLEAN, retryAttempts : {0},
   deleteOriginal : {FALSE}, errorCallback : {"none"},
   extensions : {<<JsExt>>}, minSize : {0}, maxSize : {Undefined},
   excludePatterns : {<<>>}, includePatterns : {<<>>},
   shouldCompress : {"none"}, skipExisting : {FALSE},
   verbose : {FALSE}]

HookInit ==
  /\ options \in HookOptions
  /\ disk \in [ext : {[f \in FileIds |-> JsExt]},
                dir : [FileIds -> Dirs],
                order : {[i \in FileIds |-> i]},
                unlistable : {{}}, link : {FALSE}]
  /\ fsys = {SourcePath(f) : f \in FileIds}
  /\ faults = MaxFaults
  /\ probe = NoProbe
  /\ Unstarted
  /\ viteConfig = Undefined

HookNext ==
  \/ \E outDir \in Dirs : configResolved(outDir)
  \/ closeBundle
  \/ ChunkSettled
  \/ \E f \in FileIds, ev \in StreamEvents : StreamEvent(f, ev)
  \/ NextBuild

HookSpec == HookInit /\ [][HookNext]_vars

\* ------------------------------------------------- the paths in flight
\* The batch seen by the paths its streams open. The output directory is
\* flat and holds .js files, and may hold siblings of the first file left
\* by an earlier build; br may be one of the configured extensions. Every
\* stream finishes.
BrExt == <<"b", "r">>

PathOptions ==
  [type : CompressionType, parallel : {TRUE}, maxParallel : 1..MaxParallel,
   continueOnError : {TRUE}, retryAttempts : {0},
   deleteOriginal : {FALSE}, errorCallback : {"none"},
   extensions : {<<JsExt>>, <<JsExt, BrExt>>}, minSize : {0},
   maxSize : {Undefined}, excludePatterns : {<<>>}, includePatterns : {<<>>},
   shouldCompress : {"none"}, skipExisting : {FALSE},
   verbose : {FALSE}]

PathInit ==
  /\ options \in PathOptions
  /\ disk = [ext |-> [f \in FileIds |-> JsExt],
             dir |-> [f \in FileIds |-> RootDir],
             order |-> [i \in FileIds |-> i],
             unlistable |-> {}, link |-> FALSE]
  /\ \E left \in SUBSET {BrotliPath(1), GzipPath(1)} :
       fsys = {SourcePath(f) : f \in FileIds} \cup left
  /\ faults = MaxFaults
  /\ probe = NoProbe
  /\ Fresh

\* findFiles over a flat directory, by the paths it pushes: fullPath of
\* every file entry that passes the extension test and the filter.
findFilesByPath(dir, o, fs) ==
  LET pushed == SelectSeq(readdirSync(dir, fs),
                          LAMBDA e :
                            /\ ~e.isDirectory
                            /\ HasExtension(e.name, o.extensions)
                            /\ shouldCompressFile(Resolve(dir, e.name),
                                                  StatSize(e.path[1]),
                                                  o.minSize, o.maxSize,
                                                  o.excludePatterns,
                                                  o.includePatterns,
                                                  o.shouldCompress))
  IN  [i \in 1..Len(pushed) |-> Resolve(dir, pushed[i].name)]

\* compressedPath = `${filePath}.br` or `${filePath}.gz`
CompressedPath(filePath, codec) == filePath \o Suffix(codec)

\* The calls of one chunk start: each opens the streams of its first codec.
StartChunk(pc, chunk, type) ==
  [p \in DOMAIN pc |-> IF p \in Range(chunk) THEN FirstCodec(type) ELSE pc[p]]

\* closeBundle walks and compressFiles starts the first chunk.
CompressFilesByPath ==
  /\ probe = NoProbe
  /\ LET found == findFilesByPath(OutDir(viteConfig), options, fsys)
         chunks == chunkArray(found, options.maxParallel)
         waiting == [p \in Range(found) |-> "waiting"]
     IN  probe' = [fn |-> "compressFiles", files |-> found, chunks |-> chunks,
                   k |-> 1,
                   pc |-> IF found = <<>> THEN waiting
                          ELSE StartChunk(waiting, chunks[1], options.type),
                   done |-> found = <<>>]
  /\ UNCHANGED Idle

\* The write stream of a file's running codec finishes: gzip follows
\* brotli, or compressFile resolves.
WriteStreamFinish(filePath) ==
  /\ probe.fn = "compressFiles"
  /\ filePath \in Range(probe.files)
  /\ probe.pc[filePath] \in Codecs
  /\ probe' = [probe EXCEPT
                 !.pc[filePath] =
                   IF GzipFollows(@, options.type) THEN "gzip" ELSE "settled"]
  /\ UNCHANGED Idle

\* Promise.allSettled resolves: the next chunk starts, or compressFiles
\* returns.
AllSettled ==
  /\ probe.fn = "compressFiles"
  /\ ~probe.done
  /\ \A p \in Range(probe.chunks[probe.k]) : probe.pc[p] = "settled"
  /\ probe' = IF probe.k = Len(probe.chunks)
                THEN [probe EXCEPT !.done = TRUE]
                ELSE [probe EXCEPT
                        !.k = @ + 1,
                        !.pc = StartChunk(@, probe.chunks[probe.k + 1],
                                          options.type)]
  /\ UNCHANGED Idle

PathNext ==
  \/ CompressFilesByPath
  \/ \E f \in FileIds, suffix \in {<<>>, Suffix("brotli"), Suffix("gzip")} :
       WriteStreamFinish(FullPath(f) \o suffix)
  \/ AllSettled

PathSpec == PathInit /\ [][PathNext]_vars


\* ================================================================ claims
Candidates == Range(files)
Rejected(f) == op[f].pc = "rejected"
Fulfilled(f) == op[f].pc = "fulfilled"
Deleted(f) == SourcePath(f) \notin fsys
CodecSucceeded(f) == \E c \in Codecs : ArtifactPath(f, c) \in written
CallsFor(f) == SelectSeq(cbLog, LAMBDA c : c.filePath = f)
\* The position of f in the candidate list and the chunk it falls in.
PositionOf(f) == CHOOSE i \in 1..Len(files) : files[i] = f
ChunkOf(f) == ((PositionOf(f) - 1) \div options.maxParallel) + 1

\* C1: in parallel mode, at no point are more than maxParallel
\* compressFileWithRetry calls started and not yet settled.
C1_BoundedConcurrency ==
  options.parallel => Cardinality(InFlight) <= options.maxParallel

C1_Witness ==
  /\ options.parallel
  /\ options.maxParallel = 2
  /\ Len(files) > options.maxParallel
  /\ Cardinality(InFlight) = options.maxParallel
  /\ idx = 1

Requested(codec) == options.type \in {codec, "both"}

\* C2: every file that entered the engine settles, whichever stream fails:
\* while an entered file is unsettled the run can still take a step. When
\* no stream failed, every candidate ends with its artifacts written.
C2_EveryFileSettles ==
  /\ (\A f \in Candidates : Started(op[f]) => Settled(op[f])) \/ ENABLED Next
  /\ (hook = "resolved" /\ faults = 0) =>
       \A f \in Candidates : \A c \in Codecs :
         Requested(c) => ArtifactPath(f, c) \in written

\* C3: with continueOnError, a file rejected after its retries does not stop
\* the batch: no exception leaves compressFiles or closeBundle, and at the
\* end every candidate was processed and each rejection is tallied.
C3_FailureDoesNotStopBatch ==
  options.continueOnError =>
    /\ batch # "threw"
    /\ hook # "rejected"
    /\ hook = "resolved" =>
         /\ \A f \in Candidates : Settled(op[f])
         /\ stats.failedFiles >= Cardinality({f \in Candidates : Rejected(f)})

\* C4: sequential, continueOnError=false: the first rejected file aborts the
\* batch; no later file is attempted and no statistics are returned.
C4_SequentialAbort ==
  (~options.parallel /\ ~options.continueOnError) =>
    \A f \in Candidates : Rejected(f) =>
      /\ batch # "returned"
      /\ \A g \in Candidates : PositionOf(g) > PositionOf(f) => ~Started(op[g])

\* C5: parallel, continueOnError=false: a rejection in a chunk fails the
\* batch once the chunk settled; no later chunk is started.
C5_ParallelAbort ==
  (options.parallel /\ ~options.continueOnError) =>
    \A f \in Candidates : Rejected(f) =>
      /\ batch # "returned"
      /\ \A g \in Candidates : ChunkOf(g) > ChunkOf(f) => ~Started(op[g])

\* C6: a file whose codec streams raise errors is attempted
\* retryAttempts + 1 times before it counts as failed.
C6_StreamErrorRetried ==
  \A f \in Candidates :
    (Settled(op[f]) /\ ~CodecSucceeded(f)) =>
      attempts[f] = options.retryAttempts + 1

\* C7 (as stated): the call fulfils with the first attempt that does not
\* raise, rejects only after retryAttempts + 1 raised attempts, and then
\* rejects with the error of the last attempt.
C7_RejectsWithLastError ==
  \A f \in Candidates :
    /\ Fulfilled(f) =>
         /\ attempts[f] <= options.retryAttempts + 1
         /\ attempts[f] > 1 => op[f].lastError = StatError(f, attempts[f] - 2)
    /\ Rejected(f) =>
         /\ attempts[f] = options.retryAttempts + 1
         /\ op[f].reason = StatError(f, options.retryAttempts)

\* The retry contract of C7, except that a throwing errorCallback replaces
\* the rejection error by its own exception.
C7_RetryState ==
  \A f \in Candidates :
    /\ Fulfilled(f) =>
         /\ attempts[f] <= options.retryAttempts + 1
         /\ attempts[f] > 1 => op[f].lastError = StatError(f, attempts[f] - 2)
    /\ Rejected(f) =>
         /\ attempts[f] = options.retryAttempts + 1
         /\ op[f].lastError = StatError(f, options.retryAttempts)
         /\ op[f].reason = IF options.errorCallback = "throws"
                             THEN CallbackError ELSE op[f].lastError

\* C7 (amended): the retry contract above holds in every state, and once a
\* call has settled neither its attempt count nor its result changes.
C7_RetryContract ==
  /\ []C7_RetryState
  /\ [][\A f \in FileIds : Settled(op[f]) =>
          (attempts'[f] = attempts[f] /\ op'[f] = op[f])]_vars

C7_Witness ==
  \E g \in Candidates :
    /\ options.retryAttempts >= 1
    /\ Rejected(g)
    /\ attempts[g] = options.retryAttempts + 1
    /\ op[g].reason = StatError(g, options.retryAttempts)

\* C8: the error callback is invoked exactly once, with the terminal error
\* and the path, for every file that ended as failed, and never for a file
\* that succeeded.
C8_CallbackOncePerFailure ==
  (options.errorCallback # "none" /\ batch = "returned") =>
    \A f \in Candidates :
      IF Rejected(f)
        THEN CallsFor(f) = <<[error |-> op[f].reason, filePath |-> f]>>
        ELSE IF CodecSucceeded(f) THEN CallsFor(f) = <<>>
        ELSE Len(CallsFor(f)) = 1

\* The brotli run of f's attempt is over: finished or failed.
BrotliOver(f) == op[f].pc \in {"gzip", "hung", "fulfilled"}

ExactlyOneCodecFailed(f) ==
  Settled(op[f]) /\ Cardinality({c \in Codecs : ArtifactPath(f, c) \in written}) = 1

\* C9: with type=both, once the brotli run of an attempt is over the gzip
\* run has been started. If exactly one codec failed, the outcome is
\* resolved with one compressed and one failed codec, and the original is
\* deleted when deleteOriginal is set.
C9_BothCodecsAttempted ==
  options.type = "both" =>
    \A f \in Candidates :
      /\ BrotliOver(f) => tried[f] = Codecs
      /\ ExactlyOneCodecFailed(f) =>
           /\ Fulfilled(f)
           /\ op[f].results.compressedFiles = 1
           /\ op[f].results.failedFiles = 1
           /\ options.deleteOriginal => Deleted(f)

\* C10 (as stated): F is deleted iff deleteOriginal is set and a requested
\* codec succeeded for F; written artifacts stay.
C10_DeletedIffCompressed ==
  /\ \A f \in Candidates :
       Settled(op[f]) =>
         (Deleted(f) <=> (options.deleteOriginal /\ CodecSucceeded(f)))
  /\ written \subseteq fsys

\* C10 (amended): F is deleted iff deleteOriginal is set, a requested codec
\* succeeded for F and unlinkSync did not throw; a file is never deleted
\* before its call settled, and written artifacts stay.
C10_DeletedIffCompressedAndUnlinked ==
  /\ \A f \in FileIds :
       Deleted(f) <=>
         /\ Settled(op[f])
         /\ options.deleteOriginal
         /\ CodecSucceeded(f)
         /\ f \notin unlinkFailed
  /\ written \subseteq fsys

C10_Witness ==
  \E f \in Candidates :
    /\ options.deleteOriginal /\ options.type = "both"
    /\ Deleted(f)
    /\ BrotliPath(f) \in written /\ BrotliPath(f) \in fsys
    /\ GzipPath(f) \notin written


\* C11: the only paths the plugin creates are F.br and F.gz of a candidate F
\* whose compression started, and only for a requested codec (brotli: never
\* F.gz; gzip: never F.br); a file whose codecs all succeeded has every
\* requested sibling written.
C11_OnlyRequestedSiblings ==
  /\ \A p \in fsys \cup written :
       \/ p = SourcePath(p[1])
       \/ \E f \in Candidates, c \in Codecs :
            /\ p = ArtifactPath(f, c)
            /\ Requested(c)
            /\ Started(op[f])
  /\ \A f \in Candidates :
       Fulfilled(f) /\ op[f].results.failedFiles = 0 =>
         \A c \in Codecs : Requested(c) => ArtifactPath(f, c) \in written

C11_Witness ==
  \E f, g \in Candidates :
    /\ f # g
    /\ Fulfilled(f) /\ Fulfilled(g)
    /\ op[f].results.failedFiles = 0
    /\ options.type = "gzip"
    /\ GzipPath(f) \in written /\ BrotliPath(f) \notin fsys
    /\ GzipPath(g) \in fsys /\ GzipPath(g) \notin written


\* ---------------------------------------------------- eligibility claims
\* Glob matching as the documentation states it: `**` is any run of
\* characters, separators included, and a leading `**/` may stand for no
\* segment at all; `*` is any run without a separator; `?` is one character.
RECURSIVE GlobMatches(_, _)
GlobMatches(pattern, path) ==
  IF pattern = <<>> THEN path = <<>>
  ELSE IF Len(pattern) >= 2 /\ SubSeq(pattern, 1, 2) = <<"*", "*">>
    THEN \/ /\ Len(pattern) >= 3 /\ pattern[3] = "/"
            /\ GlobMatches(SubSeq(pattern, 4, Len(pattern)), path)
         \/ GlobMatches(SubSeq(pattern, 3, Len(pattern)), path)
         \/ path # <<>> /\ GlobMatches(pattern, Tail(path))
  ELSE IF Head(pattern) = "*"
    THEN \/ GlobMatches(Tail(pattern), path)
         \/ path # <<>> /\ Head(path) # "/" /\ GlobMatches(pattern, Tail(path))
  ELSE IF Head(pattern) = "?"
    THEN path # <<>> /\ GlobMatches(Tail(pattern), Tail(path))
  ELSE path # <<>> /\ Head(path) = Head(pattern)
         /\ GlobMatches(Tail(pattern), Tail(path))

MatchesAny(path, patterns) ==
  \E i \in 1..Len(patterns) : GlobMatches(patterns[i], path)

SizeChecksPass ==
  /\ probe.minSize <= probe.fileSize
  /\ probe.maxSize = Undefined \/ probe.fileSize <= probe.maxSize[1]

Glob(p) == probe.fn = "matchesPattern" /\ probe.done /\ probe.patterns = <<p>>
Eligibility == probe.fn = "shouldCompressFile" /\ probe.done

\* C13 (as stated): a file is eligible only if minSize <= s and maxSize is
\* undefined or s <= maxSize, for every maxSize >= 0 including 0.
C13_SizeBounds ==
  Eligibility /\ probe.result =>
    /\ probe.minSize <= probe.fileSize
    /\ probe.maxSize = Undefined \/ probe.fileSize <= probe.maxSize[1]


\* C14 (as stated): with includePatterns non-empty and the size checks
\* passed, a file is eligible iff its path matches an include pattern,
\* whatever excludePatterns holds, and the predicate is not called.
C14_IncludeIsSoleAuthority ==
  Eligibility /\ Len(probe.includePatterns) > 0 /\ SizeChecksPass =>
    /\ probe.result <=> MatchesAny(probe.filePath, probe.includePatterns)
    /\ probe.branch # "predicate"

\* C15 (as stated): a pattern with `**` matches every path that the glob
\* names, `**` standing for any run of segments: **/v/** matches every path
\* with a directory segment v, and **/*.js a .js file at any depth.
C15_DoubleStarMatchesSegments ==
  \A p \in {VendorGlob, AnyJsGlob} :
    Glob(p) /\ GlobMatches(p, probe.filePath) => probe.result

\* C16 (as stated): the pattern a?c matches a path iff the path is a, one
\* character of any kind, c.
C16_QuestionMarkMatchesOneChar ==
  Glob(OneCharGlob) =>
    (probe.result <=>
       /\ Len(probe.filePath) = 3
       /\ probe.filePath[1] = "a"
       /\ probe.filePath[3] = "c")


\* ----------------------------------------------------------- walk claims
\* The file's extension, the text after the last dot of its name, is one of
\* the configured extensions, letter case included.
ExtensionListed(f) == disk.ext[f] \in Range(options.extensions)
\* A sibling of a requested codec was there when the build started.
SiblingFound(f) ==
  CASE options.type = "brotli" -> BrotliPath(f) \in prev.fsys
    [] options.type = "gzip" -> GzipPath(f) \in prev.fsys
    [] options.type = "both" ->
         BrotliPath(f) \in prev.fsys \/ GzipPath(f) \in prev.fsys
\* Eligible under the walk options in use: no patterns, no predicate, no
\* maxSize.
SizeEligible(f) == SourcePath(f) \in prev.fsys /\ options.minSize <= StatSize(f)
Walked == hook # "idle"

\* C12: a file whose extension is not listed is no candidate, is never
\* started, stays on disk and gets no sibling; a build without any failure
\* compresses exactly the eligible files with a listed extension.
C12_UnlistedExtensionUntouched ==
  /\ \A f \in FileIds :
       ~ExtensionListed(f) =>
         /\ f \notin Candidates
         /\ op[f] = IdleOp /\ attempts[f] = 0
         /\ \A p \in {SourcePath(f), BrotliPath(f), GzipPath(f)} :
              p \in fsys <=> p \in prev.fsys
         /\ \A c \in Codecs : ArtifactPath(f, c) \notin written
  /\ hook = "resolved" /\ stats.failedFiles = 0 /\ ~options.skipExisting =>
       /\ \A f \in FileIds :
            CodecSucceeded(f) <=> (ExtensionListed(f) /\ SizeEligible(f))
       /\ Len(files) =
            Cardinality({f \in FileIds : ExtensionListed(f) /\ SizeEligible(f)})

C12_Witness ==
  /\ hook = "resolved" /\ batch = "returned" /\ stats.failedFiles = 0
  /\ options.deleteOriginal /\ ~options.skipExisting
  /\ \E f, g, h \in FileIds :
       /\ disk.ext[f] = JsExt /\ CodecSucceeded(f) /\ Deleted(f)
       /\ disk.ext[g] = UpperJsExt /\ ~Deleted(g)
       /\ disk.ext[h] = PngExt /\ ~Deleted(h)

\* C17: with skipExisting a file is a candidate iff it is eligible and no
\* sibling of a requested codec exists (brotli: F.br; gzip: F.gz; both:
\* either one); without skipExisting siblings do not matter.
C17_SkipExisting ==
  Walked =>
    \A f \in FileIds :
      f \in Candidates <=>
        /\ ExtensionListed(f)
        /\ SizeEligible(f)
        /\ ~(options.skipExisting /\ SiblingFound(f))

C17_Witness ==
  /\ Walked /\ prev.builds = 0
  /\ options.skipExisting /\ options.type = "both"
  /\ GzipPath(1) \in prev.fsys /\ BrotliPath(1) \notin prev.fsys
  /\ ExtensionListed(1) /\ SizeEligible(1)
  /\ 1 \notin Candidates
  /\ Candidates # {}

RECURSIVE SumTo(_, _)
SumTo(g, n) == IF n = 0 THEN 0 ELSE g[n] + SumTo(g, n - 1)

\* The sum over the candidates whose call was fulfilled of one field of the
\* outcome.
Total(field) ==
  SumTo([f \in FileIds |->
           IF f \in Candidates /\ Fulfilled(f) THEN op[f].results[field] ELSE 0],
        MaxFiles)

\* C19: in parallel mode the returned statistics are the sums of the
\* outcomes over the set of candidates (a rejected call counting as one
\* failed file) and the ratio of those sums: they depend neither on the
\* order of the candidate list nor on the order of settling.
C19_OrderInvariantStatistics ==
  batch = "returned" /\ options.parallel =>
    stats = Finalize(
      [EmptyStats(Cardinality(Candidates)) EXCEPT
         !.compressedFiles = Total("compressedFiles"),
         !.failedFiles = Total("failedFiles")
                           + Cardinality({f \in Candidates : Rejected(f)}),
         !.totalOriginalSize = Total("totalOriginalSize"),
         !.totalCompressedSize = Total("totalCompressedSize"),
         !.brotliFiles = Total("brotliFiles"),
         !.gzipFiles = Total("gzipFiles")])

C19_Witness ==
  /\ batch = "returned"
  /\ options.maxParallel = MaxParallel
  /\ disk.order[1] = MaxFiles /\ files[1] = MaxFiles
  /\ Rejected(MaxFiles)
  /\ \E f \in Candidates :
       Fulfilled(f) /\ op[f].results.failedFiles = 1
                    /\ op[f].results.compressedFiles = 1
  /\ stats.totalOriginalSize > 0

\* The bytes a codec writes to its artifact: a compressed stream is never
\* empty, whatever the source holds.
ArtifactBytes(f, codec) == StatSize(f) \div 2 + 1
BytesWritten(f) ==
  SumTo([i \in 1..2 |->
           IF ArtifactPath(f, <<"brotli", "gzip">>[i]) \in written
             THEN ArtifactBytes(f, <<"brotli", "gzip">>[i]) ELSE 0], 2)

\* C20 (as stated): the compressed size of a file's outcome is the number
\* of bytes written to the artifacts of its successful codecs, and the
\* returned totalCompressedSize is the sum over all artifacts written.
C20_CompressedSizeIsBytesWritten ==
  /\ \A f \in Candidates :
       Fulfilled(f) => op[f].results.totalCompressedSize = BytesWritten(f)
  /\ batch = "returned" =>
       stats.totalCompressedSize =
         SumTo([f \in FileIds |-> IF f \in Candidates THEN BytesWritten(f) ELSE 0],
               MaxFiles)


\* C29 (as stated): with includePatterns empty and the size checks passed, a
\* path matching an exclude pattern is ineligible and the predicate is not
\* called; otherwise a configured predicate decides; otherwise the file is
\* eligible. An empty exclude list excludes nothing.
C29_ExcludeThenPredicate ==
  Eligibility /\ Len(probe.includePatterns) = 0 /\ SizeChecksPass =>
    IF MatchesAny(probe.filePath, probe.excludePatterns)
      THEN ~probe.result /\ probe.branch = "excluded"
    ELSE IF probe.shouldCompress # "none"
      THEN /\ probe.branch = "predicate"
           /\ probe.result = CallPredicate(probe.shouldCompress,
                                           probe.filePath, probe.fileSize)
    ELSE probe.result /\ probe.branch = "default"


\* --------------------------------------------------------- codec claims
Clamp(x, lo, hi) == IF x < lo THEN lo ELSE IF x > hi THEN hi ELSE x

\* C23: the value handed to Brotli is the configured quality clamped to
\* 0..11 and the one handed to gzip the configured level clamped to 0..9;
\* the creation of the stream never rejects, in range or not.
C23_CodecLevelClamped ==
  /\ probe.fn = "compressWithBrotli" /\ probe.done =>
       /\ probe.param = Clamp(probe.level, 0, BrotliMaxQuality)
       /\ ~probe.result
  /\ probe.fn = "compressWithGzip" /\ probe.done =>
       /\ probe.param = Clamp(probe.level, 0, GzipMaxLevel)
       /\ ~probe.result

C23_Witness ==
  /\ probe.fn = "compressWithBrotli" /\ probe.done
  /\ probe.level > BrotliMaxQuality
  /\ probe.param = BrotliMaxQuality


\* ------------------------------------------------------ scheduling order
Done(f) == Fulfilled(f) \/ Rejected(f)

\* The statistics that hold the result of each of the first n candidates
\* exactly once: a resolved outcome adds its counts and sizes, a rejection
\* one failed file.
RECURSIVE Tally(_)
Tally(n) ==
  IF n = 0 THEN EmptyStats(Len(files))
  ELSE LET s == Tally(n - 1)
           r == op[files[n]].results
       IN
       IF Fulfilled(files[n])
         THEN [s EXCEPT
                 !.compressedFiles = @ + r.compressedFiles,
                 !.failedFiles = @ + r.failedFiles,
                 !.totalOriginalSize = @ + r.totalOriginalSize,
                 !.totalCompressedSize = @ + r.totalCompressedSize,
                 !.brotliFiles = @ + r.brotliFiles,
                 !.gzipFiles = @ + r.gzipFiles]
         ELSE [s EXCEPT !.failedFiles = @ + 1]

\* C24: in parallel mode, while a file of group N+1 is started every file
\* of the groups up to N has settled and has been folded into the
\* statistics, and no file of a later group has been started.
C24_GroupsOneAfterAnother ==
  options.parallel /\ batch = "running" =>
    LET before == Min((idx - 1) * options.maxParallel, Len(files)) IN
    /\ \A i \in 1..Len(files) :
         /\ i <= before => Done(files[i])
         /\ i > before + options.maxParallel => ~Started(op[files[i]])
    /\ stats = Tally(before)

C24_Witness ==
  /\ options.parallel /\ batch = "running"
  /\ options.maxParallel = 2 /\ Len(files) = 3
  /\ idx = 2
  /\ op[files[3]].pc \in Codecs
  /\ Rejected(files[1]) /\ attempts[files[1]] = 2
  /\ Fulfilled(files[2])

\* C25: in sequential mode at most one file is in flight, the one the loop
\* is at; the files before it have settled, retries and backoff waits
\* included, and the files after it have not been started.
C25_SequentialInOrder ==
  ~options.parallel =>
    /\ Cardinality(InFlight) <= 1
    /\ batch = "running" =>
         /\ InFlight \subseteq {files[idx]}
         /\ \A i \in 1..Len(files) :
              /\ i < idx => Done(files[i])
              /\ i > idx => ~Started(op[files[i]])

C25_Witness ==
  /\ ~options.parallel /\ batch = "running"
  /\ Len(files) = 3 /\ idx = 2
  /\ Fulfilled(files[1]) /\ attempts[files[1]] = 2
  /\ op[files[2]].pc = "backoff"
  /\ ~Started(op[files[3]])

\* C26: when compressFiles returns, every candidate has settled and the
\* statistics hold each candidate's result exactly once, in sequential and
\* in parallel mode and for every maxParallel.
C26_EachResultFoldedOnce ==
  batch = "returned" =>
    /\ \A f \in Candidates : Done(f)
    /\ stats.totalFiles = Cardinality(Candidates)
    /\ stats = Finalize(Tally(Len(files)))
    /\ stats.compressedFiles + stats.failedFiles >= Cardinality(Candidates)

C26_Witness ==
  /\ batch = "returned"
  /\ options.parallel /\ options.maxParallel = 2 /\ Len(files) = 3
  /\ Rejected(files[2])
  /\ Fulfilled(files[1]) /\ Fulfilled(files[3])
  /\ stats.failedFiles = 1 /\ stats.compressedFiles = 2

\* C27: a source is deleted only by its own settled operation, after every
\* requested codec was attempted in it; while a codec of the file runs or
\* is still to come, the source is there.
C27_DeleteAfterAllCodecs ==
  \A f \in FileIds :
    /\ Deleted(f) =>
         /\ Fulfilled(f)
         /\ \A c \in Codecs : Requested(c) => c \in tried[f]
    /\ op[f].pc \in Codecs => ~Deleted(f)

C27_Witness ==
  \E f \in Candidates :
    /\ options.type = "both" /\ options.deleteOriginal
    /\ Deleted(f)
    /\ tried[f] = Codecs
    /\ BrotliPath(f) \in written /\ GzipPath(f) \notin written

\* The outcome of f's codecs alone: one count per codec that finished or
\* failed, and the size statSync reported.
CodecOutcome(f) ==
  LET ok == {c \in tried[f] : ArtifactPath(f, c) \in written} IN
  [compressedFiles |-> Cardinality(ok),
   failedFiles |-> Cardinality(tried[f] \ ok),
   totalOriginalSize |-> StatSize(f),
   totalCompressedSize |-> compressedSize * Cardinality(ok),
   brotliFiles |-> IF "brotli" \in ok THEN 1 ELSE 0,
   gzipFiles |-> IF "gzip" \in ok THEN 1 ELSE 0]

\* C28: a file whose original could not be deleted is resolved with the
\* outcome of its codecs, exactly as a file whose deletion succeeded; its
\* call is not rejected or retried and the error callback is not invoked
\* for it.
C28_UnlinkFailureKeepsOutcome ==
  \A f \in FileIds :
    /\ Fulfilled(f) => op[f].results = CodecOutcome(f)
    /\ f \in unlinkFailed =>
         /\ Fulfilled(f)
         /\ op[f].results.compressedFiles > 0
         /\ ~Deleted(f)
         /\ CallsFor(f) = <<>>

C28_Witness ==
  \E f, g \in Candidates :
    /\ f \in unlinkFailed /\ g \notin unlinkFailed
    /\ Fulfilled(g) /\ Deleted(g)
    /\ op[f].results.failedFiles = 1 /\ op[f].results.compressedFiles = 1
    /\ op[g].results.compressedFiles = 2


\* ------------------------------------------------------- the tree walk
NoDuplicates(seq) ==
  \A i, j \in 1..Len(seq) : seq[i] = seq[j] => i = j

\* The walk closeBundle made, over the directory as the build found it.
TheWalk == FindFilesIn(RootDir, options, prev.fsys, {})

\* C22: a directory that cannot be listed contributes no files and raises
\* no error. An unlistable root gives the empty list, and closeBundle
\* completes without writing anything; an unlistable subdirectory leaves
\* the files of the root enumerated.
C22_UnlistableDirectorySkipped ==
  hook # "idle" =>
    /\ Candidates = {f \in FileIds : /\ RootDir \notin disk.unlistable
                                     /\ disk.dir[f] \notin disk.unlistable}
    /\ hook # "rejected" /\ ~crashed
    /\ RootDir \in disk.unlistable =>
         /\ files = <<>>
         /\ hook = "resolved" /\ batch = "notStarted"
         /\ written = {} /\ fsys = prev.fsys

C22_Witness ==
  /\ disk.unlistable = {VendorDir}
  /\ disk.dir[1] = VendorDir /\ disk.dir[2] = RootDir /\ disk.dir[3] = RootDir
  /\ files = <<2, 3>>
  /\ hook = "resolved"
  /\ written = {GzipPath(2), GzipPath(3)}

\* C30: one walk lists every directory path at most once and enters no
\* directory twice, a link back to an ancestor included; entering a visited
\* directory again yields no files, and no file is a candidate twice.
C30_EachDirectoryListedOnce ==
  hook # "idle" =>
    /\ files = TheWalk.files
    /\ NoDuplicates(TheWalk.listed)
    /\ NoDuplicates([i \in 1..Len(TheWalk.listed) |->
                       Physical(TheWalk.listed[i])])
    /\ Range(TheWalk.listed) = TheWalk.visitedDirs
    /\ \A d \in TheWalk.visitedDirs :
         FindFilesIn(d, options, prev.fsys, TheWalk.visitedDirs).files = <<>>
    /\ NoDuplicates(files)

C30_Witness ==
  /\ disk.link /\ disk.unlistable = {}
  /\ disk.dir[1] = VendorDir /\ disk.dir[2] = RootDir
  /\ TheWalk.listed = <<RootDir, VendorDir>>
  /\ hook = "resolved"
  /\ Len(files) = MaxFiles


\* ------------------------------------------------------- the verbose flag
\* C21: verbose does not influence behaviour: wherever the flag is
\* consulted on the way, the run with the flag set and the run with it
\* cleared go on alike. The one place where the flag guards more than a
\* console call with ready-made arguments is the loop over a settled
\* chunk's results, which must fold the same results and leave the same way
\* under either value.
C21_VerboseHasNoInfluence ==
  /\ options.parallel
  /\ batch = "running"
  /\ \A f \in Range(Unit(idx)) : Done(f)
  => ChunkFold(TRUE, stats, Unit(idx)) = ChunkFold(FALSE, stats, Unit(idx))


\* ------------------------------------------------- a callback that throws
\* C37: with an error callback that throws, the sequential loop ends at the
\* first rejected file: no later file is attempted and no statistics are
\* returned, and closeBundle rejects only when continueOnError is off. In
\* parallel mode the rejection is counted once in failedFiles, the batch
\* never throws and returns after every candidate has settled.
C37_ThrowingCallback ==
  Throws(options.errorCallback) =>
    IF options.parallel
      THEN /\ batch # "threw"
           /\ batch = "returned" =>
                /\ \A f \in Candidates : Done(f)
                /\ stats.failedFiles =
                     Tally(Len(files)).failedFiles
                /\ hook = "resolved"
      ELSE /\ batch # "notStarted" =>
                \A i \in 1..Len(files) :
                  /\ i < idx => Fulfilled(files[i])
                  /\ i > idx => ~Started(op[files[i]])
           /\ batch = "returned" => \A f \in Candidates : Fulfilled(f)
           /\ batch = "threw" =>
                /\ Rejected(files[idx])
                /\ stats.compressionRatio = 0
                /\ hook = IF options.continueOnError THEN "resolved"
                          ELSE "rejected"


\* ------------------------------------------------- closeBundle's catch
\* The files of the units after the one the loop is at.
Later == {files[i] : i \in {j \in 1..Len(files) :
            j > (IF options.parallel THEN idx * options.maxParallel ELSE idx)}}

\* C33: an error thrown in closeBundle's try scope ends the run there: no
\* later file is started and nothing is in flight. closeBundle rejects
\* when continueOnError is off and completes normally when it is on; it
\* never rejects for another reason.
C33_ErrorPropagation ==
  /\ batch = "threw" =>
       /\ hook = (IF options.continueOnError THEN "resolved" ELSE "rejected")
       /\ InFlight = {}
       /\ \A f \in Later : ~Started(op[f])
  /\ hook = "rejected" => batch = "threw" /\ ~options.continueOnError

C33_Witness ==
  /\ batch = "threw" /\ hook = "rejected"
  /\ ~options.continueOnError
  /\ ~options.parallel /\ idx = 1
  /\ Cardinality(Later) = MaxFiles - 1


\* ------------------------------------------------------- the statistics
\* The candidates whose result the loop has folded so far.
FoldedCount ==
  CASE batch = "notStarted" -> 0
    [] batch = "returned" -> Len(files)
    [] batch = "threw" -> idx
    [] batch = "running" ->
         IF options.parallel
           THEN Min((idx - 1) * options.maxParallel, Len(files))
           ELSE idx - 1

FoldedFiles == {files[i] : i \in 1..FoldedCount}

\* C34: compressionRatio is computed once, when every result has been
\* folded: until then it is 0, and in the returned statistics it is
\* (totalOriginalSize - totalCompressedSize) / totalOriginalSize * 100 (in
\* whole percent) when totalOriginalSize > 0 and 0 otherwise, also when
\* every file was rejected.
C34_RatioComputedAtEnd ==
  /\ batch # "returned" => stats.compressionRatio = 0
  /\ batch = "returned" =>
       /\ FoldedFiles = Candidates
       /\ IF stats.totalOriginalSize > 0
            THEN /\ stats.compressionRatio * stats.totalOriginalSize <=
                      (stats.totalOriginalSize - stats.totalCompressedSize) * 100
                 /\ (stats.compressionRatio + 1) * stats.totalOriginalSize >
                      (stats.totalOriginalSize - stats.totalCompressedSize) * 100
            ELSE stats.compressionRatio = 0
       /\ (\A f \in Candidates : Rejected(f)) => stats.compressionRatio = 0

C34_Witness ==
  /\ batch = "returned"
  /\ Len(files) = 2
  /\ \A f \in Candidates : Rejected(f)
  /\ stats.failedFiles = 2 /\ stats.totalOriginalSize = 0
  /\ stats.compressionRatio = 0

NumCodecs == IF options.type = "both" THEN 2 ELSE 1

\* C35: compressedFiles counts successful codec runs. After each fold and
\* at the end, compressedFiles + failedFiles is the number of requested
\* codecs times the folded files whose call resolved, plus the folded files
\* whose call was rejected; compressedFiles = brotliFiles + gzipFiles;
\* skippedFiles is 0. With one codec the sum at the end is totalFiles.
C35_StatisticsAccounting ==
  batch # "notStarted" =>
    /\ stats.compressedFiles + stats.failedFiles =
         NumCodecs * Cardinality({f \in FoldedFiles : Fulfilled(f)})
           + Cardinality({f \in FoldedFiles : Rejected(f)})
    /\ stats.compressedFiles = stats.brotliFiles + stats.gzipFiles
    /\ stats.skippedFiles = 0
    /\ batch = "returned" /\ NumCodecs = 1 =>
         stats.compressedFiles + stats.failedFiles = stats.totalFiles

C35_Witness ==
  /\ batch = "running" /\ options.type = "both"
  /\ options.parallel /\ options.maxParallel = 2 /\ idx = 2
  /\ Rejected(files[1])
  /\ Fulfilled(files[2]) /\ op[files[2]].results.failedFiles = 1
  /\ stats.compressedFiles = 1 /\ stats.failedFiles = 2


\* ------------------------------------------------- the partitioning loop
Ceiling(n, d) == (n + d - 1) \div d

RECURSIVE Concat(_)
Concat(seqs) == IF seqs = <<>> THEN <<>> ELSE Head(seqs) \o Concat(Tail(seqs))

\* What holds at every point of the partitioning.
PartitioningSafe ==
  /\ probe.chunkSize <= 0 =>
       /\ ~probe.done
       /\ probe.i <= 0
       /\ batch = "partitioning"
       /\ \A f \in FileIds : ~Started(op[f])
  /\ ~probe.done => \A f \in FileIds : ~Started(op[f])
  /\ probe.done =>
       /\ Len(probe.chunks) = Ceiling(Len(probe.array), probe.chunkSize)
       /\ Concat(probe.chunks) = probe.array
       /\ \A k \in 1..Len(probe.chunks) :
            Len(probe.chunks[k]) \in 1..probe.chunkSize

\* C36: in parallel mode with maxParallel <= 0 and a non-empty list the
\* loop of chunkArray never gets past the first element and is never left:
\* no compression is started and the batch does not return. With
\* maxParallel >= 1 the loop is left, with ceil(n / maxParallel) groups.
C36_PartitioningLoop ==
  /\ []PartitioningSafe
  /\ (probe.chunkSize >= 1) ~> probe.done

C36_Witness ==
  /\ probe.chunkSize = 0
  /\ Len(probe.array) = MaxFiles
  /\ Len(probe.chunks) = MaxChunks
  /\ probe.i = 0 /\ ~probe.done


\* ------------------------------------------------ a predicate that throws
\* The files the custom predicate throws for.
PredicateThrewFor ==
  {f \in FileIds : options.shouldCompress = "throwsOnOne" /\ StatSize(f) = 1}

\* The files in the order readdirSync lists them, without those in S.
RECURSIVE ListedWithout(_, _)
ListedWithout(i, S) ==
  IF i > MaxFiles THEN <<>>
  ELSE (IF disk.order[i] \in S THEN <<>> ELSE <<disk.order[i]>>)
         \o ListedWithout(i + 1, S)

\* C38: a file the custom predicate throws for is left out of the candidate
\* list and the walk goes on with the next entry; the error reaches neither
\* the errorCallback nor failedFiles nor the caller of closeBundle, whatever
\* continueOnError is, and the file is not touched.
C38_ThrowingPredicateSkipsFile ==
  hook # "idle" =>
    /\ files = ListedWithout(1, PredicateThrewFor)
    /\ stats.totalFiles = Len(files)
    /\ hook # "rejected"
    /\ \A f \in PredicateThrewFor :
         /\ ~Started(op[f])
         /\ CallsFor(f) = <<>>
         /\ fsys \cap {SourcePath(f), BrotliPath(f), GzipPath(f)}
              = {SourcePath(f)}
    /\ stats.failedFiles <=
         Cardinality({f \in Candidates : Rejected(f) \/ op[f].results.failedFiles > 0})

C38_Witness ==
  /\ options.shouldCompress = "throwsOnOne"
  /\ ~options.continueOnError /\ options.errorCallback = "returns"
  /\ disk.order = <<2, 1, 3>>
  /\ files = <<1, 3>>
  /\ batch = "returned" /\ hook = "resolved"
  /\ Rejected(1) /\ Len(cbLog) = 1
  /\ stats.failedFiles = 1 /\ stats.compressedFiles = 1


\* ---------------------------------------------------------------- C39
\* The directories at or below an output directory.
Under(dir, outDir) == outDir = RootDir \/ dir = outDir

\* C39: while no configuration has been resolved, a closeBundle call is
\* rejected, whatever continueOnError says, and has listed, read, written
\* and deleted nothing; once one has been resolved, a closeBundle call
\* walks the output directory of the configuration resolved last.
C39_HookOrdering ==
  /\ viteConfig = Undefined =>
       /\ hook \in {"idle", "rejected"}
       /\ files = <<>> /\ batch = "notStarted"
       /\ written = {} /\ fsys = prev.fsys
       /\ \A f \in FileIds : op[f] = IdleOp /\ attempts[f] = 0
  /\ hook \in {"running", "resolved"} =>
       \E outDir \in Dirs :
         /\ viteConfig = Defined(outDir)
         /\ Candidates = {f \in FileIds : Under(disk.dir[f], outDir)}

\* A build was rejected under continueOnError for want of a configuration;
\* the subdirectory was then resolved as output directory and walked.
C39_Witness ==
  /\ prev.rejected /\ options.continueOnError
  /\ viteConfig = Defined(VendorDir)
  /\ hook = "resolved" /\ Len(files) > 0 /\ Len(files) < MaxFiles
  /\ written # {}


\* ---------------------------------------------------------------- C40
\* The step in which closeBundle walks yields the list found in the
\* directory as it is then; no later step of the same call changes the list
\* or totalFiles.
WalkedOnce ==
  /\ hook = "idle" /\ hook' # "idle" =>
       files' = findFiles(RootDir, options, fsys)
  /\ hook # "idle" /\ hook' # "idle" =>
       files' = files /\ stats'.totalFiles = stats.totalFiles

\* totalFiles is the length of the list, and nothing written is on it.
CountedOnce ==
  hook # "idle" =>
    /\ stats.totalFiles = Len(files)
    /\ \A p \in written : p \notin {SourcePath(f) : f \in Candidates}

\* C40: the candidate list is the one the walk found before the first
\* compression started, totalFiles is its length, and through the whole
\* batch nothing that is created or deleted changes either.
C40_CandidatesFixedBeforeBatch == []CountedOnce /\ [][WalkedOnce]_vars

\* The batch has created an artifact that a walk of the directory as it
\* is now would take into account, and a candidate is still waiting.
C40_Witness ==
  /\ hook = "running" /\ Len(files) >= 2
  /\ written # {} /\ fsys # prev.fsys
  /\ findFiles(RootDir, options, fsys) # files
  /\ \E f \in Candidates : op[f].pc = "idle"


\* ---------------------------------------------------------------- C31
\* The directory itself can be listed.
Listable(dir) == dir \notin disk.unlistable
\* The walk gets to the directory: it and the output directory above it
\* can be listed.
Reached(dir) == Listable(RootDir) /\ Listable(dir)
\* The file has a configured extension, passes the filter and is not
\* skipped for a sibling found.
Wanted(f) ==
  /\ ExtensionListed(f)
  /\ SizeEligible(f)
  /\ ~(options.skipExisting /\ SiblingFound(f))

PathsInFlight ==
  IF probe.fn = "compressFiles"
    THEN {p \in Range(probe.files) : probe.pc[p] \in Codecs}
    ELSE {}
\* The path the running codec of an in-flight file writes.
WritePath(p) == CompressedPath(p, probe.pc[p])

\* No two writes in flight have the same destination.
DistinctDestinations ==
  \A p, q \in PathsInFlight : p # q => WritePath(p) # WritePath(q)

\* C32: at every point, no two codec writes in flight target the same
\* path, and no write in flight targets a path that another operation in
\* flight reads as its source.
C32_NoPathContention ==
  /\ DistinctDestinations
  /\ \A p, q \in PathsInFlight : p # q => WritePath(p) # q

====
